---- MODULE Spec2Model ----
(***************************************************************************)
(* Mood signal stabilisation engine of music-mood: the detection loop of   *)
(* MoodDetector (mood_detector.py), the decision loop of app.py and the    *)
(* category switch of MusicManager (music_manager.py).                     *)
(*                                                                         *)
(* Units.  Raw and smoothed classifier scores are integers in 1/1000.      *)
(* Intensity multipliers and the smoothing factor are integers in 1/10.    *)
(* Confidences and confidence thresholds are integers in 1/10000, so that  *)
(* confidence = score * intensity is exact.  Time is in whole seconds.     *)
(* The sad sensitivity factor is given in halves (1 = 0.5 ... 6 = 3.0).    *)
(***************************************************************************)
EXTENDS Integers, Sequences, FiniteSets, TLC

VARIABLES
    \* MoodDetector fields (mood_detector.py:12-58)
    current_mood, mood_confidence, mood_history, is_detecting, mood_lock,
    confidence_threshold, emotion_smoothing, emotion_intensity,
    emotion_thresholds, emotion_history,
    \* self.camera.isOpened()
    camera_opened,
    \* the detection threads: position in _detection_loop and its locals
    det,
    \* the camera: the scene it shows (frame k is script[k mod Len(script)]),
    \* how many frames were processed and how many it delivers at most
    script, frame_no, horizon,
    \* the request handler of /api/set_sad_sensitivity: position and locals
    cfg,
    \* callers of the query methods: position and locals
    reader,
    \* time.time()
    now,
    \* observation: the (mood, confidence) pairs accepted so far, and the
    \* number of appends to mood_history
    accepted, n_appended,
    \* a call of a pure method under test: its arguments and its result
    call, ret,
    \* app_state of app.py
    app_state,
    \* the mood_monitor_loop threads: position in the loop and its locals
    mon,
    \* the MusicManager fields play_mood_music reads and writes
    music_manager,
    \* observation: the times of the last two calls of play_mood_music made
    \* by mood_monitor_loop
    switched,
    \* pygame.mixer.music.get_busy() and the _monitor_playback threads: position
    \* in the loop; followed in the specifications of the player, at rest in
    \* the others
    playback

\* the tunable parameters of the detector
param_vars == <<confidence_threshold, emotion_smoothing, emotion_intensity,
                emotion_thresholds>>
\* the mood state of the detector
mood_vars == <<current_mood, mood_confidence, mood_history>>
engine_vars == <<mood_vars, param_vars, emotion_history, is_detecting, mood_lock,
                 camera_opened>>
camera_vars == <<script, frame_no, horizon>>
observer_vars == <<accepted, n_appended>>
call_vars == <<call, ret>>
app_vars == <<app_state, mon, music_manager, switched, playback>>
vars == <<engine_vars, det, camera_vars, cfg, reader, now, observer_vars, call_vars,
          app_vars>>

----------------------------------------------------------------------------
(* Program constants *)

\* the seven labels of mood_mapping
Moods == {"happy", "sad", "angry", "fear", "surprise", "disgust", "neutral"}

\* the label passed through as it came, without the default of get
mood_mapping_as_given(emotion) == emotion

\* mood_mapping.get(dominant_emotion, 'neutral')
mood_mapping(emotion) == IF emotion \in Moods THEN emotion ELSE "neutral"

\* len(self.mood_history) > 50
HistoryCap == 50

\* len(self.emotion_history[emotion]) > 5
SmoothingCap == 5

\* self.confidence_threshold = 0.20
DefaultConfidenceThreshold == 2000

\* self.emotion_smoothing = 0.6
DefaultEmotionSmoothing == 6

\* every label weighted 1.0, neutral included
UniformEmotionIntensity == [m \in Moods |-> 10]

\* self.emotion_intensity
DefaultEmotionIntensity ==
    [m \in Moods |->
        CASE m = "happy" -> 10 [] m = "surprise" -> 8 [] m = "neutral" -> 5
          [] m = "disgust" -> 6 [] m = "fear" -> 7 [] m = "sad" -> 12
          [] m = "angry" -> 10]

\* self.emotion_thresholds
DefaultEmotionThresholds ==
    [m \in Moods |->
        CASE m = "sad" -> 1500 [] m = "happy" -> 2500 [] m = "angry" -> 3000
          [] m = "fear" -> 2500 [] m = "surprise" -> 2500
          [] m = "disgust" -> 2500 [] m = "neutral" -> 2000]

\* self.emotion_intensity.get(label, 0.5)
IntensityDefault == 5

\* every label weighted 1.0
intensity_get_unweighted(intensity, label) == 10

intensity_get(intensity, label) ==
    IF label \in DOMAIN intensity THEN intensity[label] ELSE IntensityDefault

\* the constants of _is_mood_stable
SadGate == 2500
SadRecentGate == 1500
HighGate == 7000
RecentGate == 3000
NewGate == 5000
SadRecentLen == 2
RecentLen == 3

----------------------------------------------------------------------------
(* Sequences *)

\* s[-n:]
LastN(s, n) == SubSeq(s, IF Len(s) > n THEN Len(s) - n + 1 ELSE 1, Len(s))

\* s[-1]
Last(s) == s[Len(s)]

\* [entry['mood'] for entry in s]
MoodsOf(s) == {s[i].mood : i \in DOMAIN s}

\* the sequences over S of length up to n
SeqUpTo(S, n) == UNION {[1..k -> S] : k \in 0..n}

----------------------------------------------------------------------------
(* MoodDetector._is_mood_stable *)

is_mood_stable_low_sad(history, new_mood, confidence) ==
    IF new_mood = "sad" /\ confidence > SadRecentGate THEN TRUE
    ELSE IF new_mood = "sad" /\ "sad" \in MoodsOf(LastN(history, SadRecentLen))
    THEN confidence > SadRecentGate
    ELSE IF confidence > HighGate THEN TRUE
    ELSE IF new_mood \in MoodsOf(LastN(history, RecentLen))
    THEN confidence > RecentGate
    ELSE confidence > NewGate

is_mood_stable_no_new_gate(history, new_mood, confidence) ==
    IF new_mood = "sad" /\ confidence > SadGate THEN TRUE
    ELSE IF new_mood = "sad" /\ "sad" \in MoodsOf(LastN(history, SadRecentLen))
    THEN confidence > SadRecentGate
    ELSE IF confidence > HighGate THEN TRUE
    ELSE confidence > RecentGate

is_mood_stable_no_sad_rule(history, new_mood, confidence) ==
    IF confidence > HighGate THEN TRUE
    ELSE IF new_mood \in MoodsOf(LastN(history, RecentLen))
    THEN confidence > RecentGate
    ELSE confidence > NewGate

\* The sad branch returns when one of its two tests applies and otherwise
\* falls through to the general rules.
is_mood_stable(history, new_mood, confidence) ==
    IF new_mood = "sad" /\ confidence > SadGate THEN TRUE
    ELSE IF new_mood = "sad" /\ "sad" \in MoodsOf(LastN(history, SadRecentLen))
    THEN confidence > SadRecentGate
    ELSE IF confidence > HighGate THEN TRUE
    ELSE IF new_mood \in MoodsOf(LastN(history, RecentLen))
    THEN confidence > RecentGate
    ELSE confidence > NewGate

----------------------------------------------------------------------------
(* MoodDetector._get_best_emotion_detection *)

RECURSIVE total_confidence(_)
\* sum(emotion_scores.values())
total_confidence(scores) ==
    IF scores = <<>> THEN 0
    ELSE scores[1].score + total_confidence(Tail(scores))

RECURSIVE best_detection_from(_, _, _)
\* the loop over the detections: a detection replaces the best one when its
\* total is strictly greater; best = 0 stands for None
best_detection_from(emotions, i, best) ==
    IF i > Len(emotions) THEN best
    ELSE IF total_confidence(emotions[i]) >
              (IF best = 0 THEN 0 ELSE total_confidence(emotions[best]))
    THEN best_detection_from(emotions, i + 1, i)
    ELSE best_detection_from(emotions, i + 1, best)

\* the index of the chosen detection, 0 when there is none
get_best_emotion_detection(emotions) == best_detection_from(emotions, 1, 0)

----------------------------------------------------------------------------
(* MoodDetector._smooth_emotions *)

RECURSIVE Pow(_, _)
Pow(b, e) == IF e = 0 THEN 1 ELSE b * Pow(b, e - 1)

\* the weights without weights.reverse(): the oldest entry weighs most
smoothing_weight_not_reversed(smoothing, n, k) == Pow(smoothing, k - 1) * Pow(10, n - k)

\* weights = [smoothing ** i for i in range(n)], reversed: the k-th entry
\* (1-based, oldest first) of n has weight smoothing ** (n - k); with the
\* factor in tenths every weight is scaled by 10 ** (n - 1)
smoothing_weight(smoothing, n, k) == Pow(smoothing, n - k) * Pow(10, k - 1)

RECURSIVE weighted_sum(_, _, _)
weighted_sum(h, smoothing, k) ==
    IF k = 0 THEN 0
    ELSE weighted_sum(h, smoothing, k - 1)
         + smoothing_weight(smoothing, Len(h), k) * h[k]

RECURSIVE weight_sum(_, _, _)
weight_sum(n, smoothing, k) ==
    IF k = 0 THEN 0
    ELSE weight_sum(n, smoothing, k - 1) + smoothing_weight(smoothing, n, k)

\* a full list keeps what it holds: the new score is the one dropped
push_score_keep_oldest(h, score) ==
    IF Len(h) >= SmoothingCap THEN h ELSE Append(h, score)

\* append(score), then pop(0) when more than 5 are held
push_score(h, score) ==
    LET pushed == Append(h, score)
    IN  IF Len(pushed) > SmoothingCap THEN Tail(pushed) ELSE pushed

\* the weighted sum not divided by the sum of the weights
smoothed_score_not_normalized(h, smoothing, score) ==
    IF Len(h) > 1
    THEN weighted_sum(h, smoothing, Len(h)) \div Pow(10, Len(h) - 1)
    ELSE score

\* the value stored for a label whose history, after the push, is h
smoothed_score(h, smoothing, score) ==
    IF Len(h) > 1
    THEN weighted_sum(h, smoothing, Len(h)) \div weight_sum(Len(h), smoothing, Len(h))
    ELSE score

\* every label is pushed, a label the frame lacks with the score 0
smooth_history_all_labels(history, scores) ==
    [m \in DOMAIN history |->
        IF \E i \in DOMAIN scores : scores[i].emotion = m
        THEN LET i == CHOOSE j \in DOMAIN scores : scores[j].emotion = m
             IN  push_score(history[m], scores[i].score)
        ELSE push_score(history[m], 0)]

\* self.emotion_history after the call
smooth_history(history, scores) ==
    [m \in DOMAIN history |->
        IF \E i \in DOMAIN scores : scores[i].emotion = m
        THEN LET i == CHOOSE j \in DOMAIN scores : scores[j].emotion = m
             IN  push_score(history[m], scores[i].score)
        ELSE history[m]]

\* smoothed_scores, in the order of the frame's keys
smooth_emotions(history, scores, smoothing) ==
    [i \in DOMAIN scores |->
        [emotion |-> scores[i].emotion,
         score |->
            IF scores[i].emotion \in DOMAIN history
            THEN smoothed_score(push_score(history[scores[i].emotion], scores[i].score),
                                smoothing, scores[i].score)
            ELSE scores[i].score]]

----------------------------------------------------------------------------
(* MoodDetector._get_dominant_emotion *)

AmbiguityMargin == 100
AmbiguityCeiling == 400

\* sorted(..., reverse=True) is stable: equal scores keep their order
insert_desc(s, x) ==
    LET p == Cardinality({i \in DOMAIN s : s[i].score >= x.score})
    IN  SubSeq(s, 1, p) \o <<x>> \o SubSeq(s, p + 1, Len(s))

RECURSIVE sorted_emotions(_)
sorted_emotions(scores) ==
    IF scores = <<>> THEN <<>>
    ELSE insert_desc(sorted_emotions(SubSeq(scores, 1, Len(scores) - 1)),
                     scores[Len(scores)])

get_dominant_emotion(scores, intensity) ==
    IF scores = <<>> THEN [emotion |-> "neutral", confidence |-> 0]
    ELSE LET sorted == sorted_emotions(scores)
             primary == sorted[1]
         IN  IF /\ Len(sorted) > 1
                /\ primary.score - sorted[2].score < AmbiguityMargin
                /\ primary.score < AmbiguityCeiling
             THEN [emotion |-> "neutral", confidence |-> primary.score * 10]
             ELSE [emotion |-> primary.emotion,
                   confidence |-> primary.score * intensity_get(intensity, primary.emotion)]

----------------------------------------------------------------------------
(* MoodDetector._update_mood_history *)

\* the entry put in front: self.mood_history.insert(0, ...)
history_insert_front(history, mood, confidence, timestamp) ==
    <<[mood |-> mood, confidence |-> confidence, timestamp |-> timestamp]>> \o history

history_append(history, mood, confidence, timestamp) ==
    Append(history, [mood |-> mood, confidence |-> confidence, timestamp |-> timestamp])

history_evict_newest(history) ==
    IF Len(history) > HistoryCap THEN SubSeq(history, 1, Len(history) - 1) ELSE history

\* if len(self.mood_history) > 50: self.mood_history.pop(0)
history_evict(history) ==
    IF Len(history) > HistoryCap THEN Tail(history) ELSE history

update_mood_history(history, mood, confidence, timestamp) ==
    history_evict(history_append(history, mood, confidence, timestamp))

----------------------------------------------------------------------------
(* MoodDetector.get_stable_mood *)

recent_moods_strict(history, current_time, window_seconds) ==
    SelectSeq(history, LAMBDA e : current_time - e.timestamp < window_seconds)

\* entries with current_time - entry['timestamp'] <= window_seconds
recent_moods(history, current_time, window_seconds) ==
    SelectSeq(history, LAMBDA e : current_time - e.timestamp <= window_seconds)

final_weight_flat(recent, intensity, i) ==
    recent[i].confidence * intensity_get(intensity, recent[i].mood)

\* confidence * time_weight * intensity for the entry at 1-based position i,
\* with time_weight = i / total; the value is scaled by total, which is the
\* same for every entry of one call
final_weight(recent, intensity, i) ==
    recent[i].confidence * i * intensity_get(intensity, recent[i].mood)

RECURSIVE mood_tally(_, _, _)
\* the loop filling mood_weights and mood_counts; order is the insertion
\* order of the keys of mood_weights
mood_tally(recent, intensity, i) ==
    IF i = 0 THEN [order |-> <<>>, weights |-> <<>>, counts |-> <<>>]
    ELSE LET t == mood_tally(recent, intensity, i - 1)
             mood == recent[i].mood
             w == final_weight(recent, intensity, i)
         IN  IF \E k \in DOMAIN t.order : t.order[k] = mood
             THEN LET k == CHOOSE j \in DOMAIN t.order : t.order[j] = mood
                  IN  [order |-> t.order,
                       weights |-> [t.weights EXCEPT ![k] = @ + w],
                       counts |-> [t.counts EXCEPT ![k] = @ + 1]]
             ELSE [order |-> Append(t.order, mood),
                   weights |-> Append(t.weights, w),
                   counts |-> Append(t.counts, 1)]

best_mood_index_by_call(t) ==
    CHOOSE k \in DOMAIN t.order :
        /\ \A j \in DOMAIN t.order : t.weights[j] <= t.weights[k]
        /\ IF ret = <<>>
           THEN \A j \in 1..(k - 1) : t.weights[j] < t.weights[k]
           ELSE \A j \in (k + 1)..Len(t.order) : t.weights[j] < t.weights[k]

\* max(mood_weights.items(), key=lambda x: x[1]): the first key, in insertion
\* order, whose weight no other exceeds
best_mood_index(t) ==
    CHOOSE k \in DOMAIN t.order :
        /\ \A j \in DOMAIN t.order : t.weights[j] <= t.weights[k]
        /\ \A j \in 1..(k - 1) : t.weights[j] < t.weights[k]

MinConsistency == 2

\* neutral, not self.current_mood, for an empty window
get_stable_mood_no_fallback(history, cur, intensity, current_time, window_seconds) ==
    LET recent == recent_moods(history, current_time, window_seconds)
    IN  IF recent = <<>> THEN "neutral"
        ELSE LET t == mood_tally(recent, intensity, Len(recent))
                 k == best_mood_index(t)
             IN  IF t.order[k] # "neutral" /\ t.counts[k] < MinConsistency
                 THEN "neutral"
                 ELSE t.order[k]

get_stable_mood_no_guard(history, cur, intensity, current_time, window_seconds) ==
    LET recent == recent_moods(history, current_time, window_seconds)
    IN  IF recent = <<>> THEN cur
        ELSE LET t == mood_tally(recent, intensity, Len(recent))
             IN  t.order[best_mood_index(t)]

get_stable_mood(history, cur, intensity, current_time, window_seconds) ==
    LET recent == recent_moods(history, current_time, window_seconds)
    IN  IF recent = <<>> THEN cur
        ELSE LET t == mood_tally(recent, intensity, Len(recent))
                 k == best_mood_index(t)
             IN  IF t.order[k] # "neutral" /\ t.counts[k] < MinConsistency
                 THEN "neutral"
                 ELSE t.order[k]

----------------------------------------------------------------------------
(* MoodDetector.update_sad_sensitivity *)

SadBaseThreshold == 1500
SadThresholdFloor == 1000
SadBaseIntensity == 12
SadIntensityCeiling == 20

Max(a, b) == IF a > b THEN a ELSE b
Min(a, b) == IF a < b THEN a ELSE b

\* the quotient without the floor of 0.1
sad_threshold_no_floor(halves) == (2 * SadBaseThreshold) \div halves

\* max(0.1, base_threshold / sensitivity_factor), the factor in halves
sad_threshold(halves) == Max(SadThresholdFloor, (2 * SadBaseThreshold) \div halves)

\* min(2.0, 1.2 * sensitivity_factor), the factor in halves
sad_intensity(halves) == Min(SadIntensityCeiling, (SadBaseIntensity * halves) \div 2)

----------------------------------------------------------------------------
(* Threads *)

\* the detection threads that can run at the same time, in starting order
DetOrder == <<"d1", "d2">>
Readers == {"r1"}

\* a detection thread that has not been started, and one between two frames;
\* intensity is the entry of emotion_intensity the selection has read
DetOff == [pc |-> "off", emotion |-> "neutral", confidence |-> 0, intensity |-> 0]
ReaderIdle == [pc |-> "idle", mood |-> "neutral", confidence |-> 0,
               stable |-> "neutral", seen |-> 0]

\* no reconfiguration in progress; left is the number still to come
CfgIdle(left) == [pc |-> "idle", halves |-> 2, left |-> left]

\* the mood_monitor_loop threads that can run at the same time
MonOrder == <<"m1", "m2">>
Monitors == {MonOrder[i] : i \in DOMAIN MonOrder}

\* a monitor thread that has not been started
MonOff == [pc |-> "off", stable_mood |-> "neutral", current_time |-> 0,
           confidence |-> 0, wake |-> 0]

----------------------------------------------------------------------------
(* app.py: app_state, and MusicManager.__init__ *)

\* 'mood_change_cooldown': 8
DefaultCooldown == 8

\* 'mood_stability_window': 12
DefaultStabilityWindow == 12

\* app_state at import, started is the value of time.time()
DefaultAppState(started) ==
    [mood_detection_active |-> FALSE, auto_play_enabled |-> TRUE,
     last_mood_change |-> started, mood_change_cooldown |-> DefaultCooldown,
     mood_stability_window |-> DefaultStabilityWindow]

\* the tracks _scan_music_library finds: two happy tracks, one neutral
\* track, none for the other moods
ScannedLibrary ==
    [m \in Moods |-> CASE m = "happy" -> <<"happy_1", "happy_2">>
                      [] m = "neutral" -> <<"neutral_1">>
                      [] OTHER -> <<>>]

NoSong == "None"

DefaultMusicManager ==
    [current_song |-> NoSong, current_mood |-> "neutral", is_playing |-> FALSE,
     is_paused |-> FALSE, playlist |-> <<>>, current_index |-> 0,
     repeat_mode |-> FALSE, shuffle_mode |-> FALSE,
     music_library |-> ScannedLibrary]

\* at most this many _monitor_playback threads are followed at a time
MaxPlayback == 3
PlaybackThreads == 1..MaxPlayback

\* nothing has been loaded into the mixer and no _monitor_playback thread has
\* been started
PlaybackOff == [busy |-> FALSE, thread |-> [t \in PlaybackThreads |-> "off"]]

AppInit ==
    /\ app_state = DefaultAppState(0)
    /\ mon = [m \in Monitors |-> MonOff]
    /\ music_manager = DefaultMusicManager
    /\ switched = <<>>
    /\ playback = PlaybackOff

----------------------------------------------------------------------------
(* MoodDetector.__init__ *)

ParamsInit ==
    /\ confidence_threshold = DefaultConfidenceThreshold
    /\ emotion_smoothing = DefaultEmotionSmoothing
    /\ emotion_intensity = DefaultEmotionIntensity
    /\ emotion_thresholds = DefaultEmotionThresholds

EngineInit ==
    /\ ParamsInit
    /\ current_mood = "neutral"
    /\ mood_confidence = 0
    /\ mood_history = <<>>
    /\ emotion_history = [m \in Moods |-> <<>>]
    /\ is_detecting = FALSE
    /\ mood_lock = "free"
    /\ camera_opened = FALSE

\* nothing is running and no call is in progress
QuietInit ==
    /\ det = [t \in {"d1"} |-> DetOff]
    /\ reader = [r \in Readers |-> ReaderIdle]
    /\ script = <<>>
    /\ frame_no = 0
    /\ horizon = 0
    /\ cfg = CfgIdle(0)
    /\ accepted = {}
    /\ n_appended = 0
    /\ ret = <<>>
    /\ AppInit

\* a detector whose mood_history was built by calls of _update_mood_history
\* (as test_mood_history does) and whose detection is not running
BuiltInit(histories, moods) ==
    /\ ParamsInit
    /\ QuietInit
    /\ mood_history \in histories
    /\ current_mood \in moods
    /\ mood_confidence = 0
    /\ emotion_history = [m \in Moods |-> <<>>]
    /\ is_detecting = FALSE
    /\ mood_lock = "free"
    /\ camera_opened = FALSE

\* a method that returns without changing anything
Returns(value) ==
    /\ ret = <<>>
    /\ ret' = <<value>>
    /\ UNCHANGED <<engine_vars, det, camera_vars, cfg, reader, now,
                   observer_vars, call, app_vars>>

----------------------------------------------------------------------------
(* MoodDetector.start_detection, stop_detection *)

\* the first detection thread that is not running
FreeDetThread ==
    DetOrder[CHOOSE i \in DOMAIN DetOrder :
                /\ DetOrder[i] \in DOMAIN det
                /\ det[DetOrder[i]].pc = "off"
                /\ \A j \in 1..(i - 1) :
                      DetOrder[j] \in DOMAIN det => det[DetOrder[j]].pc # "off"]

\* cv2.VideoCapture opens the camera, is_detecting is set and a new thread
\* runs _detection_loop
detector_start_opened ==
    /\ \E t \in DOMAIN det : det[t].pc = "off"
    /\ camera_opened' = TRUE
    /\ is_detecting' = TRUE
    /\ det' = [det EXCEPT ![FreeDetThread] = [DetOff EXCEPT !.pc = "loop"]]

\* the camera cannot be opened: self.camera is replaced, the exception is
\* caught and nothing else changes
detector_start_failed ==
    /\ camera_opened' = FALSE
    /\ UNCHANGED <<is_detecting, det>>

detector_stop ==
    /\ is_detecting' = FALSE
    /\ camera_opened' = FALSE

DetectorStart ==
    /\ detector_start_opened
    /\ UNCHANGED <<mood_vars, param_vars, emotion_history, mood_lock, camera_vars,
                   cfg, reader, now, observer_vars, call_vars, app_vars>>

\* (with no camera open the failed call changes nothing)
DetectorStartFailed ==
    /\ camera_opened
    /\ detector_start_failed
    /\ UNCHANGED <<mood_vars, param_vars, emotion_history, mood_lock, camera_vars,
                   cfg, reader, now, observer_vars, call_vars, app_vars>>

DetectorStop ==
    /\ is_detecting
    /\ detector_stop
    /\ UNCHANGED <<mood_vars, param_vars, emotion_history, mood_lock, det,
                   camera_vars, cfg, reader, now, observer_vars, call_vars, app_vars>>

----------------------------------------------------------------------------
(* MoodDetector._detection_loop, one action per step of a thread *)

\* the time one iteration of the loop takes, in seconds
FrameTime == 1

\* a frame without a face handed on as a faint neutral face
NextFrameOrNeutral ==
    IF script[(frame_no % Len(script)) + 1] = <<>>
    THEN << << [emotion |-> "neutral", score |-> 1] >> >>
    ELSE script[(frame_no % Len(script)) + 1]

\* the detections the classifier returns for the next frame
NextFrame == script[(frame_no % Len(script)) + 1]

\* while self.is_detecting and self.camera.isOpened(): the thread ends
DetExit(t) ==
    /\ det[t].pc = "loop"
    /\ ~(is_detecting /\ camera_opened)
    /\ det' = [det EXCEPT ![t] = DetOff]
    /\ UNCHANGED <<engine_vars, camera_vars, cfg, reader, now, observer_vars, call_vars, app_vars>>

\* a frame in which no face is detected: no update
DetNoFace(t) ==
    /\ det[t].pc = "loop"
    /\ is_detecting /\ camera_opened
    /\ frame_no < horizon
    /\ get_best_emotion_detection(NextFrame) = 0
    /\ frame_no' = frame_no + 1
    /\ det' = [det EXCEPT ![t].pc = "sleep"]
    /\ UNCHANGED <<engine_vars, script, horizon, cfg, reader, now, observer_vars, call_vars, app_vars>>

\* a frame with a face: smoothing and selection (lines 110-119)
DetSelect(t) ==
    /\ det[t].pc = "loop"
    /\ is_detecting /\ camera_opened
    /\ frame_no < horizon
    /\ get_best_emotion_detection(NextFrame) # 0
    /\ LET emotion_scores == NextFrame[get_best_emotion_detection(NextFrame)]
           smoothed_scores == smooth_emotions(emotion_history, emotion_scores, emotion_smoothing)
           dominant == get_dominant_emotion(smoothed_scores, emotion_intensity)
       IN  /\ emotion_history' = smooth_history(emotion_history, emotion_scores)
           /\ det' = [det EXCEPT ![t] =
                         [pc |-> "threshold", emotion |-> dominant.emotion,
                          confidence |-> dominant.confidence,
                          intensity |-> intensity_get(emotion_intensity, dominant.emotion)]]
    /\ frame_no' = frame_no + 1
    /\ UNCHANGED <<mood_vars, param_vars, is_detecting, mood_lock, camera_opened,
                   script, horizon, cfg, reader, now, observer_vars, call_vars, app_vars>>

\* self.emotion_thresholds.get(dominant_emotion, self.confidence_threshold)
emotion_threshold(emotion) ==
    IF emotion \in DOMAIN emotion_thresholds THEN emotion_thresholds[emotion]
    ELSE confidence_threshold

\* the test left out
passes_threshold_always(t) == TRUE

\* if confidence > emotion_threshold
passes_threshold(t) == det[t].confidence > emotion_threshold(det[t].emotion)

DetThreshold(t) ==
    /\ det[t].pc = "threshold"
    /\ det' = [det EXCEPT ![t].pc = IF passes_threshold(t) THEN "acquire" ELSE "sleep"]
    /\ UNCHANGED <<engine_vars, camera_vars, cfg, reader, now, observer_vars, call_vars, app_vars>>

\* with self.mood_lock
DetAcquire(t) ==
    /\ det[t].pc = "acquire"
    /\ mood_lock = "free"
    /\ mood_lock' = t
    /\ det' = [det EXCEPT ![t].pc = "gate"]
    /\ UNCHANGED <<mood_vars, param_vars, emotion_history, is_detecting, camera_opened,
                   camera_vars, cfg, reader, now, observer_vars, call_vars, app_vars>>

\* the gate rejects: the lock is released, nothing is written
DetReject(t) ==
    /\ det[t].pc = "gate"
    /\ ~is_mood_stable(mood_history, mood_mapping(det[t].emotion), det[t].confidence)
    /\ mood_lock' = "free"
    /\ det' = [det EXCEPT ![t].pc = "sleep"]
    /\ UNCHANGED <<mood_vars, param_vars, emotion_history, is_detecting, camera_opened,
                   camera_vars, cfg, reader, now, observer_vars, call_vars, app_vars>>

\* the gate accepts: self.current_mood = new_mood
DetSetMood(t) ==
    /\ det[t].pc = "gate"
    /\ is_mood_stable(mood_history, mood_mapping(det[t].emotion), det[t].confidence)
    /\ current_mood' = mood_mapping(det[t].emotion)
    /\ det' = [det EXCEPT ![t].pc = "confidence"]
    /\ UNCHANGED <<mood_confidence, mood_history, param_vars, emotion_history,
                   is_detecting, mood_lock, camera_opened, camera_vars, cfg, reader,
                   now, observer_vars, call_vars, app_vars>>

\* self.mood_confidence = confidence
\* the step without the assignment self.mood_confidence = confidence
DetKeepConfidence(t) ==
    /\ det[t].pc = "confidence"
    /\ accepted' = accepted \cup {<<current_mood, det[t].confidence>>}
    /\ det' = [det EXCEPT ![t].pc = "append"]
    /\ UNCHANGED <<current_mood, mood_confidence, mood_history, param_vars,
                   emotion_history, is_detecting, mood_lock, camera_opened,
                   camera_vars, cfg, reader, now, n_appended, call_vars, app_vars>>

DetSetConfidence(t) ==
    /\ det[t].pc = "confidence"
    /\ mood_confidence' = det[t].confidence
    /\ accepted' = accepted \cup {<<current_mood, det[t].confidence>>}
    /\ det' = [det EXCEPT ![t].pc = "append"]
    /\ UNCHANGED <<current_mood, mood_history, param_vars, emotion_history,
                   is_detecting, mood_lock, camera_opened, camera_vars, cfg, reader,
                   now, n_appended, call_vars, app_vars>>

\* _update_mood_history: self.mood_history.append(...)
DetAppend(t) ==
    /\ det[t].pc = "append"
    /\ mood_history' = history_append(mood_history, current_mood, det[t].confidence, now)
    /\ n_appended' = n_appended + 1
    /\ det' = [det EXCEPT ![t].pc = "evict"]
    /\ UNCHANGED <<current_mood, mood_confidence, param_vars, emotion_history,
                   is_detecting, mood_lock, camera_opened, camera_vars, cfg, reader,
                   now, accepted, call_vars, app_vars>>

\* _update_mood_history: the pop(0) of an over-long history; the with block ends
DetEvict(t) ==
    /\ det[t].pc = "evict"
    /\ mood_history' = history_evict(mood_history)
    /\ mood_lock' = "free"
    /\ det' = [det EXCEPT ![t].pc = "sleep"]
    /\ UNCHANGED <<current_mood, mood_confidence, param_vars, emotion_history,
                   is_detecting, camera_opened, camera_vars, cfg, reader, now,
                   observer_vars, call_vars, app_vars>>

\* time.sleep(0.05), and the time the iteration took
DetSleep(t) ==
    /\ det[t].pc = "sleep"
    /\ det' = [det EXCEPT ![t] = [DetOff EXCEPT !.pc = "loop"]]
    /\ now' = now + FrameTime
    /\ UNCHANGED <<engine_vars, camera_vars, cfg, reader, observer_vars, call_vars, app_vars>>

\* the steps of the detection threads
DetNext ==
    \/ \E t \in DOMAIN det : DetExit(t)
    \/ \E t \in DOMAIN det : DetNoFace(t)
    \/ \E t \in DOMAIN det : DetSelect(t)
    \/ \E t \in DOMAIN det : DetThreshold(t)
    \/ \E t \in DOMAIN det : DetAcquire(t)
    \/ \E t \in DOMAIN det : DetReject(t)
    \/ \E t \in DOMAIN det : DetSetMood(t)
    \/ \E t \in DOMAIN det : DetSetConfidence(t)
    \/ \E t \in DOMAIN det : DetAppend(t)
    \/ \E t \in DOMAIN det : DetEvict(t)
    \/ \E t \in DOMAIN det : DetSleep(t)

----------------------------------------------------------------------------
(* The query methods, called from request handlers *)

\* get_stable_mood(window_seconds=15)
DefaultWindow == 15

\* s[-5:] of get_detection_debug_info
DebugLen == 5

get_current_mood_acquire_unlocked(r) ==
    /\ reader[r].pc = "idle"
    /\ reader' = [reader EXCEPT ![r].pc = "read_mood"]
    /\ UNCHANGED mood_lock

\* get_current_mood: with self.mood_lock
get_current_mood_acquire(r) ==
    /\ reader[r].pc = "idle"
    /\ mood_lock = "free"
    /\ mood_lock' = r
    /\ reader' = [reader EXCEPT ![r].pc = "read_mood"]

ReadCurrentMoodAcquire(r) ==
    /\ get_current_mood_acquire(r)
    /\ UNCHANGED <<mood_vars, param_vars, emotion_history, is_detecting, camera_opened,
                   det, camera_vars, cfg, now, observer_vars, call_vars, app_vars>>

\* 'mood': self.current_mood
ReadCurrentMoodMood(r) ==
    /\ reader[r].pc = "read_mood"
    /\ reader' = [reader EXCEPT ![r].pc = "read_confidence", ![r].mood = current_mood]
    /\ UNCHANGED <<engine_vars, det, camera_vars, cfg, now, observer_vars, call_vars, app_vars>>

\* 'confidence': self.mood_confidence; the with block ends
ReadCurrentMoodConfidence(r) ==
    /\ reader[r].pc = "read_confidence"
    /\ reader' = [reader EXCEPT ![r].pc = "return_current",
                                ![r].confidence = mood_confidence]
    /\ mood_lock' = IF mood_lock = r THEN "free" ELSE mood_lock
    /\ UNCHANGED <<mood_vars, param_vars, emotion_history, is_detecting, camera_opened,
                   det, camera_vars, cfg, now, observer_vars, call_vars, app_vars>>

\* get_stable_mood: mood_history is read without the lock; seen is the
\* number of entries the list held when it was read
ReadStableMood(r) ==
    /\ reader[r].pc = "idle"
    /\ reader' = [reader EXCEPT
                    ![r].pc = "return",
                    ![r].seen = Len(mood_history),
                    ![r].stable = get_stable_mood(mood_history, current_mood,
                                                  emotion_intensity, now, DefaultWindow)]
    /\ UNCHANGED <<engine_vars, det, camera_vars, cfg, now, observer_vars, call_vars, app_vars>>

\* get_mood_statistics: 'total_detections': len(self.mood_history) and
\* 'current_mood', read without the lock
ReadStatistics(r) ==
    /\ reader[r].pc = "idle"
    /\ reader' = [reader EXCEPT
                    ![r].pc = "return",
                    ![r].seen = Len(mood_history),
                    ![r].mood = IF mood_history = <<>> THEN "neutral" ELSE current_mood]
    /\ UNCHANGED <<engine_vars, det, camera_vars, cfg, now, observer_vars, call_vars, app_vars>>

\* get_detection_debug_info: 'recent_history': self.mood_history[-5:], read
\* without the lock
ReadDebugInfo(r) ==
    /\ reader[r].pc = "idle"
    /\ reader' = [reader EXCEPT
                    ![r].pc = "return",
                    ![r].seen = Len(LastN(mood_history, DebugLen))]
    /\ UNCHANGED <<engine_vars, det, camera_vars, cfg, now, observer_vars, call_vars, app_vars>>

\* the caller has its answer
ReaderReturn(r) ==
    /\ reader[r].pc \in {"return", "return_current"}
    /\ reader' = [reader EXCEPT ![r] = ReaderIdle]
    /\ UNCHANGED <<engine_vars, det, camera_vars, cfg, now, observer_vars, call_vars, app_vars>>

\* the steps of the callers
ReaderNext ==
    \/ \E r \in Readers : ReadCurrentMoodAcquire(r)
    \/ \E r \in Readers : ReadCurrentMoodMood(r)
    \/ \E r \in Readers : ReadCurrentMoodConfidence(r)
    \/ \E r \in Readers : ReadStableMood(r)
    \/ \E r \in Readers : ReadStatistics(r)
    \/ \E r \in Readers : ReadDebugInfo(r)
    \/ \E r \in Readers : ReaderReturn(r)

----------------------------------------------------------------------------
(* set_sad_sensitivity (app.py) and MoodDetector.update_sad_sensitivity *)

SensitivityFloor == 1
SensitivityCeiling == 6

\* sensitivity = max(0.5, min(3.0, sensitivity)), in halves
clamp_sensitivity(halves) == Max(SensitivityFloor, Min(SensitivityCeiling, halves))

\* the factors a client sends, in halves: 0.0, 1.0, 3.5
SensitivityInputs == {0, 2, 7}

\* self.emotion_thresholds['sad'] = ...
SetSadThreshold(halves) ==
    /\ cfg.pc = "idle"
    /\ cfg.left > 0
    /\ emotion_thresholds' =
          [emotion_thresholds EXCEPT !["sad"] = sad_threshold(clamp_sensitivity(halves))]
    /\ cfg' = [pc |-> "intensity", halves |-> clamp_sensitivity(halves), left |-> cfg.left - 1]
    /\ UNCHANGED <<mood_vars, confidence_threshold, emotion_smoothing, emotion_intensity,
                   emotion_history, is_detecting, mood_lock, camera_opened, det,
                   camera_vars, reader, now, observer_vars, call_vars, app_vars>>

\* self.emotion_intensity['sad'] = ...
SetSadIntensity ==
    /\ cfg.pc = "intensity"
    /\ emotion_intensity' = [emotion_intensity EXCEPT !["sad"] = sad_intensity(cfg.halves)]
    /\ cfg' = CfgIdle(cfg.left)
    /\ UNCHANGED <<mood_vars, confidence_threshold, emotion_smoothing, emotion_thresholds,
                   emotion_history, is_detecting, mood_lock, camera_opened, det,
                   camera_vars, reader, now, observer_vars, call_vars, app_vars>>

----------------------------------------------------------------------------
(* The classifier's output: one list of detections per frame *)

\* a score mapping over the seven labels, in the key order of the classifier
Scores(angry, disgust, fear, happy, sad, surprise, neutral) ==
    << [emotion |-> "angry", score |-> angry], [emotion |-> "disgust", score |-> disgust],
       [emotion |-> "fear", score |-> fear], [emotion |-> "happy", score |-> happy],
       [emotion |-> "sad", score |-> sad], [emotion |-> "surprise", score |-> surprise],
       [emotion |-> "neutral", score |-> neutral] >>

NoFace == <<>>
HappyStrong == << Scores(20, 10, 10, 900, 20, 20, 20) >>
AngryMid == << Scores(450, 50, 50, 50, 100, 50, 250) >>
SadHalf == << Scores(100, 20, 50, 100, 450, 30, 250) >>
Flat == << Scores(100, 50, 50, 250, 250, 0, 300) >>
\* a mapping that lacks five of the labels
SadFaint == << << [emotion |-> "sad", score |-> 220], [emotion |-> "neutral", score |-> 50] >> >>
\* two faces, the second with the larger total
TwoFaces == << Scores(100, 0, 0, 100, 300, 0, 100), Scores(20, 10, 10, 900, 20, 20, 20) >>

----------------------------------------------------------------------------
(* The detector with its threads, its callers and a short scene *)

EngineFrames == 3
EngineThreads == {"d1"}
MaxReconfigs == 1

EngineFrameSet == {NoFace, TwoFaces, AngryMid, SadHalf, SadFaint, Flat}

InitEngine ==
    /\ EngineInit
    /\ det = [t \in EngineThreads |-> DetOff]
    /\ reader = [r \in Readers |-> ReaderIdle]
    /\ script \in [1..EngineFrames -> EngineFrameSet]
    /\ frame_no = 0
    /\ horizon = EngineFrames
    /\ cfg = CfgIdle(MaxReconfigs)
    /\ now = 0
    /\ accepted = {}
    /\ n_appended = 0
    /\ call = <<>>
    /\ ret = <<>>
    /\ AppInit

NextEngine ==
    \/ DetectorStart \/ DetectorStop
    \/ DetNext
    \/ \E halves \in SensitivityInputs : SetSadThreshold(halves)
    \/ SetSadIntensity

SpecEngine == InitEngine /\ [][NextEngine]_vars

----------------------------------------------------------------------------
(* The detector over a long, repeating scene: the history fills up *)

RingPeriod == 2
RingFrames == 53
RingThreads == {"d1"}

RingFrameSet == {NoFace, HappyStrong, SadFaint}

InitRing ==
    /\ EngineInit
    /\ det = [t \in RingThreads |-> DetOff]
    /\ reader = [r \in Readers |-> ReaderIdle]
    /\ script \in [1..RingPeriod -> RingFrameSet]
    /\ frame_no = 0
    /\ horizon = RingFrames
    /\ cfg = CfgIdle(0)
    /\ now = 0
    /\ accepted = {}
    /\ n_appended = 0
    /\ call = <<>>
    /\ ret = <<>>
    /\ AppInit

NextRing ==
    \/ DetectorStart \/ DetectorStartFailed \/ DetectorStop
    \/ DetNext
    \/ ReaderNext

SpecRing == InitRing /\ [][NextRing]_vars

----------------------------------------------------------------------------
(* The detector over a stream of single-label frames *)

StreamPeriod == 2
StreamFrames == 6
StreamThreads == {"d1"}

\* one face whose score mapping holds the one key label
One(label, score) == << << [emotion |-> label, score |-> score] >> >>

\* "contempt" is a label outside the seven keys of mood_mapping
StreamLabels == {"happy", "sad", "surprise", "contempt"}
StreamScores == {167, 300, 900}

StreamFrameSet ==
    {NoFace, SadFaint} \cup {One(l, s) : l \in StreamLabels, s \in StreamScores}

InitStream ==
    /\ EngineInit
    /\ det = [t \in StreamThreads |-> DetOff]
    /\ reader = [r \in Readers |-> ReaderIdle]
    /\ script \in [1..StreamPeriod -> StreamFrameSet]
    /\ frame_no = 0
    /\ horizon = StreamFrames
    /\ cfg = CfgIdle(0)
    /\ now = 0
    /\ accepted = {}
    /\ n_appended = 0
    /\ call = <<>>
    /\ ret = <<>>
    /\ AppInit

NextStream ==
    \/ DetectorStart \/ DetectorStop
    \/ DetNext

SpecStream == InitStream /\ [][NextStream]_vars

\* the label the thread t has selected is not a key of mood_mapping
ForeignSelected(t) == det[t].emotion \notin Moods

\* no candidate has passed the gate yet
NothingAccepted ==
    /\ accepted = {}
    /\ \A t \in DOMAIN det : det[t].pc # "confidence"

\* C12: current_mood, and every mood recorded in the history, is one of the
\* seven labels in every reachable state; the label the loop hands to the gate
\* and would write is one of the seven also when the classifier's label is not;
\* and as long as no candidate has been accepted the mood is neutral, the
\* confidence 0 and the history empty.
C12_MoodIsALabel ==
    /\ current_mood \in Moods
    /\ MoodsOf(mood_history) \subseteq Moods
    /\ \A t \in DOMAIN det :
          det[t].pc = "gate" => mood_mapping(det[t].emotion) \in Moods
    /\ NothingAccepted =>
          /\ current_mood = "neutral"
          /\ mood_confidence = 0
          /\ mood_history = <<>>

\* a label outside the seven has passed the threshold test and is at the gate,
\* nothing having been accepted before
C12_Witness ==
    /\ \E t \in DOMAIN det : det[t].pc = "gate" /\ ForeignSelected(t)
    /\ NothingAccepted
    /\ current_mood = "neutral"


\* the frame the camera delivers next shows no face
NoFaceNext == script[(frame_no % Len(script)) + 1] = <<>>

\* no detection thread is between the selection and the end of its write
NoFrameInProgress == \A t \in DOMAIN det : det[t].pc \in {"off", "loop", "sleep"}

\* C17: the step that takes a frame without a face changes neither the
\* current mood, its confidence, the mood history nor any smoothing history,
\* and the thread goes straight to its sleep; no entry of the history has
\* confidence 0; and between two frames the pair get_current_mood would
\* return is the initial pair or an accepted one.
C17_NoFaceNoUpdate ==
    /\ [][ (frame_no' = frame_no + 1 /\ NoFaceNext) =>
              /\ UNCHANGED <<mood_vars, emotion_history>>
              /\ \A t \in DOMAIN det : det'[t] # det[t] => det'[t].pc = "sleep" ]_vars
    /\ [](\A i \in DOMAIN mood_history : mood_history[i].confidence > 0)
    /\ [](NoFrameInProgress =>
             <<current_mood, mood_confidence>> \in accepted \cup {<<"neutral", 0>>})

\* a frame without a face has been taken after a frame that made happy the
\* current mood: the mood is still happy and the history has its one entry
C17_Witness ==
    /\ frame_no = 2
    /\ script[2] = NoFace
    /\ \E t \in DOMAIN det : det[t].pc = "sleep"
    /\ current_mood = "happy"
    /\ mood_confidence = 9000
    /\ Len(mood_history) = 1
    /\ emotion_history["happy"] = <<900>>

\* C18: a candidate whose confidence does not exceed the threshold of its
\* label goes no further than the threshold test; a candidate the gate
\* rejects, as it does a sad candidate with confidence in (0.15, 0.25] when
\* sad is not among the last entries, ends the iteration there; in both cases
\* and in the rest of the iteration current_mood, mood_confidence and
\* mood_history keep their values.
C18_RejectedLeavesMood ==
    [][ \A t \in DOMAIN det :
           /\ ( /\ det[t].pc = "threshold" /\ det'[t].pc # "threshold"
                /\ det[t].confidence <= emotion_threshold(det[t].emotion) )
              => det'[t].pc = "sleep" /\ UNCHANGED mood_vars
           /\ ( /\ det[t].pc = "gate" /\ det'[t].pc # "gate"
                /\ det[t].emotion = "sad"
                /\ det[t].confidence \in 1501..2500
                /\ "sad" \notin MoodsOf(LastN(mood_history, RecentLen)) )
              => det'[t].pc = "sleep"
           /\ (det[t].pc = "gate" /\ det'[t].pc = "sleep") => UNCHANGED mood_vars
           /\ (det[t].pc = "sleep" /\ det'[t].pc # "sleep") => UNCHANGED mood_vars
      ]_vars

\* from the initial state a frame has selected sad with confidence 0.2004
\* (score 0.167): it passed the sad threshold 0.15, the gate rejected it, and
\* only the smoothing history of sad has advanced
C18_Witness ==
    /\ frame_no = 1
    /\ \E t \in DOMAIN det :
          /\ det[t].pc = "sleep"
          /\ det[t].emotion = "sad"
          /\ det[t].confidence = 2004
    /\ current_mood = "neutral"
    /\ mood_confidence = 0
    /\ mood_history = <<>>
    /\ emotion_history["sad"] = <<167>>

\* every frame of the scene is the single-label frame {label: score}
ConstantStream(label, score) == \A i \in DOMAIN script : script[i] = One(label, score)

\* the first frame has been taken and its candidate is past the gate
FirstFrameDone ==
    \/ frame_no >= 2
    \/ /\ frame_no = 1
       /\ \A t \in DOMAIN det : det[t].pc \notin {"threshold", "acquire", "gate"}

\* C19: on a stream of frames {L: s} with constant s, every tick selects L
\* with confidence s * intensity[L], that is, the smoothed score is s, and the
\* smoothing history of L holds s only; if s * intensity[L] > 0.7 the current
\* mood is L from the first frame on, every frame is accepted, and between two
\* frames the confidence is s * intensity[L]. For {happy: 0.9} the selection
\* is (happy, 0.9) on each of the three ticks.
C19_ConstantStream ==
    \A label \in StreamLabels : \A score \in StreamScores :
        ConstantStream(label, score) =>
            LET confidence == score * intensity_get(DefaultEmotionIntensity, label)
            IN  /\ \A t \in DOMAIN det :
                      det[t].pc \notin {"off", "loop"} =>
                          /\ det[t].emotion = label
                          /\ det[t].confidence = confidence
                /\ label \in Moods =>
                      \A i \in DOMAIN emotion_history[label] :
                          emotion_history[label][i] = score
                /\ (confidence > HighGate /\ FirstFrameDone) =>
                      /\ current_mood = label
                      /\ NoFrameInProgress =>
                            /\ mood_confidence = confidence
                            /\ Len(mood_history) = frame_no
                            /\ MoodsOf(mood_history) = {label}

\* {happy: 0.9} has been fed on three ticks: three accepted observations of
\* (happy, 0.9), the smoothing history holds 0.9 three times
C19_Witness ==
    /\ ConstantStream("happy", 900)
    /\ frame_no = 3
    /\ NoFrameInProgress
    /\ emotion_history["happy"] = <<900, 900, 900>>
    /\ current_mood = "happy"
    /\ mood_confidence = 9000
    /\ Len(mood_history) = 3

\* the i-th frame of the scene, counted from 1
FrameAt(i) == script[((i - 1) % Len(script)) + 1]

\* the labels of a score mapping
LabelsOf(scores) == {scores[i].emotion : i \in DOMAIN scores}

RECURSIVE RawScores(_, _)
\* the raw scores the classifier has given for a label in the first n frames,
\* in arrival order
RawScores(label, n) ==
    IF n = 0 THEN <<>>
    ELSE LET frame == FrameAt(n)
             best == get_best_emotion_detection(frame)
         IN  IF best # 0 /\ label \in LabelsOf(frame[best])
             THEN Append(RawScores(label, n - 1),
                         frame[best][CHOOSE i \in DOMAIN frame[best] :
                                        frame[best][i].emotion = label].score)
             ELSE RawScores(label, n - 1)

\* C21: after any number of frames the smoothing history of every label holds
\* at most 5 scores and is the last 5 (or all, if fewer) of the raw scores the
\* label has received, in arrival order.
C21_SmoothingWindow ==
    \A m \in Moods :
        /\ Len(emotion_history[m]) <= 5
        /\ emotion_history[m] = LastN(RawScores(m, frame_no), 5)

\* six frames have pushed a score for sad, alternately 0.167 and 0.9: the
\* first score is gone, the other five are held in arrival order
C21_Witness ==
    /\ frame_no = 6
    /\ script = <<One("sad", 167), One("sad", 900)>>
    /\ emotion_history["sad"] = <<900, 167, 900, 167, 900>>

\* C22: a frame with a face whose score mapping lacks labels is processed
\* like any other: the thread reaches the threshold test, the histories of
\* the labels the mapping lacks are unchanged, each label it holds (of the
\* seven) has its score pushed, the selected label is one the mapping holds
\* (neutral when two of its labels are too close), and _smooth_emotions
\* returns a value for exactly the labels it receives.
C22_PartialMapping ==
    /\ [][ (frame_no' = frame_no + 1 /\ ~NoFaceNext) =>
              LET frame == FrameAt(frame_no + 1)
                  scores == frame[get_best_emotion_detection(frame)]
              IN  /\ \A m \in Moods \ LabelsOf(scores) :
                        emotion_history'[m] = emotion_history[m]
                  /\ \A i \in DOMAIN scores :
                        scores[i].emotion \in Moods =>
                            /\ emotion_history'[scores[i].emotion] # <<>>
                            /\ Last(emotion_history'[scores[i].emotion]) = scores[i].score
                  /\ \E t \in DOMAIN det :
                        /\ det[t].pc = "loop"
                        /\ det'[t].pc = "threshold"
                        /\ \/ det'[t].emotion \in LabelsOf(scores)
                           \/ det'[t].emotion = "neutral" /\ Len(scores) > 1 ]_vars
    /\ [](\A frame \in StreamFrameSet \ {NoFace} :
             LabelsOf(smooth_emotions(emotion_history, frame[1], emotion_smoothing))
                 = LabelsOf(frame[1]))

\* after {happy: 0.9} a frame that holds only sad and neutral has been taken:
\* the history of happy is as it was, sad and neutral have their first score
C22_Witness ==
    /\ frame_no = 2
    /\ script = <<One("happy", 900), SadFaint>>
    /\ \E t \in DOMAIN det : det[t].pc = "threshold" /\ det[t].emotion = "sad"
    /\ emotion_history["happy"] = <<900>>
    /\ emotion_history["sad"] = <<220>>
    /\ emotion_history["neutral"] = <<50>>
    /\ emotion_history["angry"] = <<>>

----------------------------------------------------------------------------
(* The history ring under the detection thread and its concurrent callers *)

\* the thread t takes the step that leads from one position to another
Moves(t, from, to) == det[t].pc = from /\ det'[t].pc = to


\* C2: once an append has completed (the thread has left _update_mood_history)
\* mood_history holds at most 50 entries; the append adds the new entry at the
\* back and the eviction from a history of 51 removes exactly the oldest
\* entry, the other 50 keeping their order.
C2_CappedFifo ==
    [][ /\ (\A t \in DOMAIN det : det'[t].pc # "evict") => Len(mood_history') <= HistoryCap
        /\ \A t \in DOMAIN det :
              Moves(t, "append", "evict") =>
                  /\ Len(mood_history') = Len(mood_history) + 1
                  /\ SubSeq(mood_history', 1, Len(mood_history)) = mood_history
                  /\ Last(mood_history') = [mood |-> current_mood,
                                            confidence |-> det[t].confidence,
                                            timestamp |-> now]
        /\ \A t \in DOMAIN det :
              Moves(t, "evict", "sleep") =>
                  IF Len(mood_history) > HistoryCap
                  THEN mood_history' = Tail(mood_history)
                  ELSE mood_history' = mood_history ]_vars

\* more than 50 observations were accepted, the last append is complete and
\* the history is full
C2_Witness ==
    /\ n_appended > HistoryCap
    /\ Len(mood_history) = HistoryCap
    /\ \E t \in DOMAIN det : det[t].pc = "sleep"
    /\ mood_history[1].timestamp < mood_history[HistoryCap].timestamp

\* C27: the timestamps of mood_history never decrease from one entry to the
\* next and the last is not later than the clock; every change of
\* mood_history either removes the first entry or puts one entry, stamped
\* with the time of the append, behind all the entries that were there, and
\* no step of a reader changes mood_history.
C27_ArrivalOrder ==
    /\ [](\A i \in 1..(Len(mood_history) - 1) :
              mood_history[i].timestamp <= mood_history[i + 1].timestamp)
    /\ [](mood_history # <<>> => Last(mood_history).timestamp <= now)
    /\ [][ /\ mood_history' # mood_history =>
                 \/ mood_history # <<>> /\ mood_history' = Tail(mood_history)
                 \/ /\ Len(mood_history') = Len(mood_history) + 1
                    /\ SubSeq(mood_history', 1, Len(mood_history)) = mood_history
                    /\ Last(mood_history').timestamp = now
           /\ reader' # reader => mood_history' = mood_history ]_vars

\* the oldest observations have been evicted, the history is full, its
\* timestamps differ and a reader is at work
C27_Witness ==
    /\ n_appended > HistoryCap + 1
    /\ Len(mood_history) = HistoryCap
    /\ mood_history[1].timestamp > 1
    /\ mood_history[1].timestamp < mood_history[2].timestamp
    /\ mood_history[HistoryCap - 1].timestamp < mood_history[HistoryCap].timestamp
    /\ \E r \in Readers : reader[r].pc # "idle"

\* C29: whenever mood_lock is free and mood_history is not empty,
\* current_mood and mood_confidence are the mood and the confidence of its
\* last entry; current_mood and mood_confidence change only in the steps of
\* a detection thread that holds the lock and has passed the gate, and that
\* thread then appends one entry made of the two before it releases the lock;
\* mood_history grows in no other step.
C29_CurrentIsLastEntry ==
    /\ []((mood_lock = "free" /\ mood_history # <<>>) =>
              /\ current_mood = Last(mood_history).mood
              /\ mood_confidence = Last(mood_history).confidence)
    /\ [][ /\ current_mood' # current_mood =>
                 \E t \in DOMAIN det : Moves(t, "gate", "confidence") /\ mood_lock = t
           /\ mood_confidence' # mood_confidence =>
                 \E t \in DOMAIN det : Moves(t, "confidence", "append") /\ mood_lock = t
           /\ \A t \in DOMAIN det :
                 /\ Moves(t, "gate", "confidence") => mood_lock' = t
                 /\ Moves(t, "confidence", "append") => mood_lock' = t
                 /\ det[t].pc = "append" /\ det'[t] # det[t] =>
                       /\ Moves(t, "append", "evict")
                       /\ mood_lock' = t
                       /\ n_appended' = n_appended + 1
                       /\ Len(mood_history') = Len(mood_history) + 1
                       /\ Last(mood_history').mood = current_mood
                       /\ Last(mood_history').confidence = mood_confidence
           /\ Len(mood_history') > Len(mood_history) =>
                 \E t \in DOMAIN det : Moves(t, "append", "evict")
           /\ n_appended' # n_appended =>
                 \E t \in DOMAIN det : Moves(t, "append", "evict") ]_vars

\* the lock is free after an observation of sad was accepted after one of
\* happy with another confidence
C29_Witness ==
    /\ mood_lock = "free"
    /\ Len(mood_history) >= 2
    /\ current_mood = "sad"
    /\ mood_confidence = Last(mood_history).confidence
    /\ mood_history[Len(mood_history) - 1].mood = "happy"
    /\ mood_history[Len(mood_history) - 1].confidence # mood_confidence

\* C3: no call of get_stable_mood, get_mood_statistics or
\* get_detection_debug_info that runs concurrently with the detection thread
\* finds more than 50 entries in mood_history.
C3_ReadersSeeAtMostCap ==
    \A r \in Readers : reader[r].pc = "return" => reader[r].seen <= HistoryCap

\* C4: get_current_mood returns the pair of one single accepted observation
\* or the initial pair (neutral, 0.0), never the mood of one observation with
\* the confidence of another.
C4_PairOfOneObservation ==
    \A r \in Readers :
        reader[r].pc = "return_current" =>
            <<reader[r].mood, reader[r].confidence>> \in accepted \cup {<<"neutral", 0>>}

\* get_current_mood returns the pair of an observation after observations
\* with another mood and with another confidence were accepted
C4_Witness ==
    \E r \in Readers :
        /\ reader[r].pc = "return_current"
        /\ <<reader[r].mood, reader[r].confidence>> \in accepted
        /\ \E p \in accepted : p[1] # reader[r].mood /\ p[2] # reader[r].confidence
        /\ \E p \in accepted : p[1] = reader[r].mood /\ p[2] # reader[r].confidence

----------------------------------------------------------------------------
(* The gate inside the detection loop *)

\* C5: every observation appended to mood_history whose mood is not sad and
\* does not occur among the 3 entries that precede it has confidence > 0.5.
C5_NewLabelNeedsHalf ==
    [][ \A t \in DOMAIN det :
            ( /\ Moves(t, "append", "evict")
              /\ Last(mood_history').mood # "sad"
              /\ Last(mood_history').mood \notin MoodsOf(LastN(mood_history, RecentLen)) )
            => Last(mood_history').confidence > NewGate ]_vars

\* a label that is not sad and not among the entries before it has just been
\* appended to a history that was not empty
C5_Witness ==
    /\ \E t \in DOMAIN det : det[t].pc = "evict"
    /\ Len(mood_history) >= 2
    /\ Last(mood_history).mood # "sad"
    /\ Last(mood_history).mood
          \notin MoodsOf(LastN(SubSeq(mood_history, 1, Len(mood_history) - 1), RecentLen))
    /\ Last(mood_history).confidence < HighGate

\* the selection of thread t is sad with a confidence the sad rule accepts
SadCandidate(t) ==
    /\ det[t].emotion = "sad"
    /\ \/ det[t].confidence > SadGate
       \/ /\ det[t].confidence > SadRecentGate
          /\ "sad" \in MoodsOf(LastN(mood_history, SadRecentLen))

\* the thread t drops its selection: the threshold test or the gate fails
Dropped(t) == Moves(t, "threshold", "sleep") \/ Moves(t, "gate", "sleep")

\* C7 as stated: a selected sad with confidence > 0.25, or > 0.15 when sad
\* is among the last 2 entries, is never dropped, whatever sad sensitivity
\* has been configured.
C7_SadNeverDropped ==
    [][ \A t \in DOMAIN det : SadCandidate(t) => ~Dropped(t) ]_vars

\* C7: a selected sad with confidence > 0.25, or > 0.15 when sad is among the
\* last 2 entries, whose confidence also exceeds the configured sad threshold
\* max(0.1, 0.15 / factor) becomes the current mood and is appended.
C7_SadAcceptedAboveThreshold ==
    [][ \A t \in DOMAIN det :
            SadCandidate(t) =>
                /\ (det[t].pc = "threshold" /\ det'[t].pc # "threshold"
                      /\ det[t].confidence > emotion_thresholds["sad"])
                   => det'[t].pc = "acquire"
                /\ (det[t].pc = "gate" /\ det'[t].pc # "gate")
                   => det'[t].pc = "confidence" /\ current_mood' = "sad"
                /\ (det[t].pc = "append" /\ det'[t].pc # "append")
                   => Last(mood_history').mood = "sad" ]_vars

\* a sad selection passed the gate after the sensitivity was changed and is
\* in the history
C7_Witness ==
    /\ \E t \in DOMAIN det : det[t].pc = "evict" /\ det[t].emotion = "sad"
    /\ Last(mood_history).mood = "sad"
    /\ emotion_thresholds["sad"] # DefaultEmotionThresholds["sad"]
    /\ cfg.left = 0

----------------------------------------------------------------------------
(* update_sad_sensitivity while frames are processed *)

\* the sad threshold and the sad intensity belong to one call of
\* update_sad_sensitivity, or both are the values of __init__
OneParameterSet(threshold, intensity) ==
    \/ /\ threshold = DefaultEmotionThresholds["sad"]
       /\ intensity = DefaultEmotionIntensity["sad"]
    \/ \E halves \in SensitivityFloor..SensitivityCeiling :
          /\ threshold = sad_threshold(halves)
          /\ intensity = sad_intensity(halves)

\* C15: when a frame whose selected label is sad reaches its threshold test,
\* the sad intensity its selection has used and the sad threshold the test
\* reads belong to one parameter set, the old one or the new one.
C15_OneParameterSetPerFrame ==
    [][ \A t \in DOMAIN det :
            ( /\ det[t].pc = "threshold"
              /\ det'[t].pc # "threshold"
              /\ det[t].emotion = "sad" )
            => OneParameterSet(emotion_thresholds["sad"], det[t].intensity) ]_vars

\* C16: update_sad_sensitivity with the clamped factor h/2 sets the sad
\* threshold to max(0.1, 0.15 / factor) and then the sad intensity to
\* min(2.0, 1.2 * factor); neither statement changes another threshold or
\* intensity, the general threshold, the smoothing factor, a smoothing history,
\* the current mood, its confidence or the mood history; for every clamped
\* factor the threshold lies in [0.1, 0.3] and the intensity in [0.6, 2.0].
C16_SadSensitivity ==
    /\ [][ /\ (cfg.pc = "idle" /\ cfg'.pc = "intensity") =>
                 /\ cfg'.halves \in 1..6
                 /\ emotion_thresholds' =
                       [emotion_thresholds EXCEPT
                           !["sad"] = IF 3000 \div cfg'.halves > 1000
                                      THEN 3000 \div cfg'.halves ELSE 1000]
                 /\ UNCHANGED <<emotion_intensity, confidence_threshold, emotion_smoothing,
                                emotion_history, mood_vars>>
           /\ (cfg.pc = "intensity" /\ cfg'.pc = "idle") =>
                 /\ emotion_intensity' =
                       [emotion_intensity EXCEPT
                           !["sad"] = IF 6 * cfg.halves < 20 THEN 6 * cfg.halves ELSE 20]
                 /\ UNCHANGED <<emotion_thresholds, confidence_threshold, emotion_smoothing,
                                emotion_history, mood_vars>>
         ]_vars
    /\ [](/\ emotion_thresholds["sad"] \in 1000..3000
          /\ emotion_intensity["sad"] \in 6..20)
    /\ [](\A halves \in 1..6 :
             /\ sad_threshold(halves) \in 1000..3000
             /\ sad_intensity(halves) \in 6..20)

\* update_sad_sensitivity(0.5) has returned on a detector that holds an
\* accepted observation: threshold 0.3, intensity 0.6
C16_Witness ==
    /\ cfg.pc = "idle" /\ cfg.left = 0
    /\ emotion_thresholds["sad"] = 3000
    /\ emotion_intensity["sad"] = 6
    /\ mood_history # <<>>
    /\ current_mood # "neutral"

----------------------------------------------------------------------------
(* The stability gate as a function: _is_mood_stable on bounded inputs *)

GateHistLen == 4
GateConfidences == {1000, 1500, 1501, 2500, 2501, 3000, 3001, 5000, 5001, 7000, 7001}

\* the gate reads the moods of the history only
GateHistories ==
    {[i \in DOMAIN ms |-> [mood |-> ms[i], confidence |-> 6000, timestamp |-> i]] :
        ms \in SeqUpTo({"sad", "happy", "angry"}, GateHistLen)}

InitGate ==
    /\ BuiltInit(GateHistories, {"neutral"})
    /\ now = GateHistLen
    /\ call \in [new_mood : {"sad", "happy", "neutral"}, confidence : GateConfidences]

GateCall == Returns(is_mood_stable(mood_history, call.new_mood, call.confidence))

NextGate == GateCall

SpecGate == InitGate /\ [][NextGate]_vars

\* C6: _is_mood_stable returns the result of the decision table: a sad
\* candidate is accepted iff its confidence is above 0.25, or sad is among
\* the last 2 entries and its confidence is above 0.15; any other candidate
\* is accepted iff its confidence is above 0.7, or it is among the last 3
\* entries and its confidence is above 0.3, or it is not and its confidence
\* is above 0.5.  A sad candidate at or below 0.25 with no sad among the last
\* 2 entries is rejected, and so is any sad candidate at or below 0.15.
C6_GateDecisionTable ==
    ret # <<>> =>
        LET c == call.confidence
            last2 == {mood_history[i].mood :
                        i \in {j \in DOMAIN mood_history : j > Len(mood_history) - 2}}
            last3 == {mood_history[i].mood :
                        i \in {j \in DOMAIN mood_history : j > Len(mood_history) - 3}}
        IN  /\ call.new_mood = "sad" =>
                (ret[1] <=> (c > 2500 \/ ("sad" \in last2 /\ c > 1500)))
            /\ call.new_mood # "sad" =>
                (ret[1] <=> \/ c > 7000
                            \/ (call.new_mood \in last3 /\ c > 3000)
                            \/ (call.new_mood \notin last3 /\ c > 5000))
            /\ (call.new_mood = "sad" /\ c <= 2500 /\ "sad" \notin last2) => ~ret[1]
            /\ (call.new_mood = "sad" /\ c <= 1500) => ~ret[1]

\* a sad candidate at 0.25 is rejected although sad is the third-last entry
C6_Witness ==
    /\ ret = <<FALSE>>
    /\ call.new_mood = "sad"
    /\ call.confidence = 2500
    /\ Len(mood_history) = 3
    /\ mood_history[1].mood = "sad"
    /\ mood_history[2].mood = "happy"
    /\ mood_history[3].mood = "angry"

----------------------------------------------------------------------------
(* The windowed vote as a function: get_stable_mood on bounded inputs *)

VoteHistLen == 3
VoteWindow == 15

VoteEntries ==
    [mood : {"angry", "surprise", "neutral"}, confidence : {5000, 6000, 9000},
     timestamp : {0, 1}]

VoteHistories ==
    {h \in SeqUpTo(VoteEntries, VoteHistLen) :
        \A i \in DOMAIN h : i > 1 => h[i - 1].timestamp <= h[i].timestamp}

InitVote ==
    /\ BuiltInit(VoteHistories, {"neutral", "happy"})
    /\ now \in {VoteWindow, VoteWindow + 1}
    /\ call = [window_seconds |-> VoteWindow]

VoteCall ==
    Returns(get_stable_mood(mood_history, current_mood, emotion_intensity, now,
                            call.window_seconds))

NextVote == VoteCall

SpecVote == InitVote /\ [][NextVote]_vars

\* the positions of mood_history that lie inside the window
InWindow == {i \in DOMAIN mood_history : now - mood_history[i].timestamp <= call.window_seconds}

\* how often a label occurs inside the window
Occurrences(label) == Cardinality({i \in InWindow : mood_history[i].mood = label})

\* C8: with at least one entry inside the window, get_stable_mood returns
\* neutral or a label that occurs at least twice inside the window.
C8_SingleSpikeNeverStable ==
    (ret # <<>> /\ InWindow # {}) =>
        (ret[1] = "neutral" \/ Occurrences(ret[1]) >= 2)

\* the vote was won by a label seen once, and neutral, which is not in the
\* window at all, is returned
C8_Witness ==
    /\ ret = <<"neutral">>
    /\ InWindow # {}
    /\ Occurrences("neutral") = 0
    /\ Occurrences("surprise") = 1
    /\ Occurrences("angry") = 0

\* the window holds exactly two angry entries, with confidences 0.6 and 0.5,
\* and one surprise entry with confidence 0.9
AngryPairAndSurprise ==
    /\ Cardinality(InWindow) = 3
    /\ \E i, j, k \in InWindow :
        /\ i # j
        /\ mood_history[i].mood = "angry" /\ mood_history[i].confidence = 6000
        /\ mood_history[j].mood = "angry" /\ mood_history[j].confidence = 5000
        /\ mood_history[k].mood = "surprise" /\ mood_history[k].confidence = 9000

\* the surprise entry is the newest entry of the window
SurpriseNewest ==
    \E k \in InWindow :
        /\ mood_history[k].mood = "surprise"
        /\ \A i \in InWindow : i <= k

\* C9 as claimed: with two angry entries (0.6, 0.5) and one surprise entry
\* (0.9) in the window, get_stable_mood returns angry wherever the surprise
\* entry stands.
C9_AngryKeptAtAnyPosition ==
    (ret # <<>> /\ AngryPairAndSurprise) => ret[1] = "angry"

\* C9 as amended: surprise is never returned; angry is returned when the
\* surprise entry is not the newest of the window, neutral when it is.
C9_SurpriseNeverWins ==
    (ret # <<>> /\ AngryPairAndSurprise) =>
        ret[1] = (IF SurpriseNewest THEN "neutral" ELSE "angry")

C9_Witness ==
    /\ ret = <<"neutral">>
    /\ AngryPairAndSurprise
    /\ SurpriseNewest

RECURSIVE SumOver(_, _)
SumOver(S, f) ==
    IF S = {} THEN 0
    ELSE LET x == CHOOSE y \in S : TRUE IN f[x] + SumOver(S \ {x}, f)

\* the accumulated weight of a label, up to the factor 1/total that all
\* labels share: the in-window entry at 0-indexed position p contributes
\* confidence * (p + 1) * intensity[label]
VoteWeight(label) ==
    SumOver({i \in InWindow : mood_history[i].mood = label},
            [i \in InWindow |->
                mood_history[i].confidence
                * Cardinality({j \in InWindow : j <= i})
                * emotion_intensity[label]])

\* the labels no other label outweighs
VoteWinners ==
    {m \in Moods : Occurrences(m) > 0 /\ \A o \in Moods : VoteWeight(o) <= VoteWeight(m)}

\* C10: get_stable_mood returns the current mood when no entry lies inside
\* the window; otherwise a label of maximum accumulated weight, replaced by
\* neutral when it is not neutral and occurs fewer than 2 times.  Two angry
\* entries (0.6, 0.5) alone in the window yield angry.
C10_ReferenceVote ==
    ret # <<>> =>
        /\ InWindow = {} => ret[1] = current_mood
        /\ InWindow # {} =>
            \E m \in VoteWinners :
                ret[1] = (IF m # "neutral" /\ Occurrences(m) < 2 THEN "neutral" ELSE m)
        /\ ( /\ Cardinality(InWindow) = 2
             /\ \A i \in InWindow : mood_history[i].mood = "angry"
             /\ {mood_history[i].confidence : i \in InWindow} = {5000, 6000} )
            => ret[1] = "angry"

\* two angry entries, 0.6 then 0.5, the older one exactly window_seconds old
C10_Witness ==
    /\ ret = <<"angry">>
    /\ Len(mood_history) = 2
    /\ Cardinality(InWindow) = 2
    /\ mood_history[1] = [mood |-> "angry", confidence |-> 6000, timestamp |-> 0]
    /\ mood_history[2] = [mood |-> "angry", confidence |-> 5000, timestamp |-> 1]
    /\ now = VoteWindow
    /\ current_mood = "neutral"

----------------------------------------------------------------------------
(* The query methods called again and again on a detector at rest *)

QueryHistLen == 3

\* entries among which two angry ones tie with a neutral one
QueryEntries ==
    [mood : {"angry", "neutral"}, confidence : {5000, 10000}, timestamp : {1}]

QueryHistories == SeqUpTo(QueryEntries, QueryHistLen)

InitQuery ==
    /\ BuiltInit(QueryHistories, {"neutral", "happy"})
    /\ now = VoteWindow
    /\ call = [window_seconds |-> VoteWindow]

\* get_stable_mood is called once more, the results are kept in call order
VoteCallAgain ==
    /\ Len(ret) = 1
    /\ ret' = Append(ret, get_stable_mood(mood_history, current_mood, emotion_intensity,
                                          now, call.window_seconds))
    /\ UNCHANGED <<engine_vars, det, camera_vars, cfg, reader, now, observer_vars,
                   call, app_vars>>

NextQuery ==
    \/ VoteCall
    \/ VoteCallAgain
    \/ \E r \in Readers : ReadCurrentMoodAcquire(r)
    \/ \E r \in Readers : ReadCurrentMoodMood(r)
    \/ \E r \in Readers : ReadCurrentMoodConfidence(r)
    \/ \E r \in Readers : ReaderReturn(r)

SpecQuery == InitQuery /\ [][NextQuery]_vars

----------------------------------------------------------------------------
(* MusicManager.play_mood_music, play_current_song *)

\* play_current_song: the track at current_index is loaded and played
play_current_song(mm) ==
    IF mm.playlist = <<>> THEN mm
    ELSE [mm EXCEPT !.current_song = mm.playlist[mm.current_index + 1],
                    !.is_playing = TRUE,
                    !.is_paused = FALSE]

\* self.music_library.get(mood, [])
get_songs_by_mood(mm, mood) ==
    IF mood \in DOMAIN mm.music_library THEN mm.music_library[mood] ELSE <<>>

\* the switch without the test mood != self.current_mood
play_mood_music_unguarded(mm, mood) ==
    LET served == [mm EXCEPT !.current_mood = mood]
        songs == get_songs_by_mood(mm, mood)
        fallback == get_songs_by_mood(mm, "neutral")
    IN  IF songs # <<>>
        THEN play_current_song([served EXCEPT !.playlist = songs, !.current_index = 0])
        ELSE IF fallback # <<>>
        THEN play_current_song([served EXCEPT !.current_mood = "neutral",
                                              !.playlist = fallback,
                                              !.current_index = 0])
        ELSE [served EXCEPT !.current_mood = "neutral"]

RECURSIVE tracks_loaded(_, _)
\* how many times play_mood_music(mood) reaches pygame.mixer.music.load and
\* play through play_current_song
tracks_loaded(mm, mood) ==
    IF mood = mm.current_mood THEN 0
    ELSE LET served == [mm EXCEPT !.current_mood = mood]
         IN  IF get_songs_by_mood(mm, mood) # <<>> THEN 1
             ELSE IF mood # "neutral" THEN tracks_loaded(served, "neutral")
             ELSE 0

\* the switch without the fallback to neutral
play_mood_music_no_fallback(mm, mood) ==
    IF mood = mm.current_mood THEN mm
    ELSE LET served == [mm EXCEPT !.current_mood = mood]
             songs == get_songs_by_mood(mm, mood)
         IN  IF songs # <<>>
             THEN play_current_song([served EXCEPT !.playlist = songs,
                                                   !.current_index = 0])
             ELSE served

RECURSIVE play_mood_music(_, _)
\* play_mood_music with shuffle_mode False, as it is unless toggle_shuffle is
\* called: nothing happens for the mood being served; a mood without tracks
\* falls back to neutral
play_mood_music(mm, mood) ==
    IF mood = mm.current_mood THEN mm
    ELSE LET served == [mm EXCEPT !.current_mood = mood]
             songs == get_songs_by_mood(mm, mood)
         IN  IF songs # <<>>
             THEN play_current_song([served EXCEPT !.playlist = songs,
                                                   !.current_index = 0])
             ELSE IF mood # "neutral" THEN play_mood_music(served, "neutral")
             ELSE served

----------------------------------------------------------------------------
(* mood_monitor_loop, one action per step of a thread *)

\* time.sleep(1.5) on a clock of whole seconds
MonitorSleep == 2

\* current_mood_data['confidence'] > 0.4
SwitchGate == 4000

\* stable_mood in ['happy', 'sad', 'angry'] and confidence > 0.3
StrongMoods == {"happy", "sad", "angry"}
StrongSwitchGate == 3000

\* the thread reaches time.sleep(1.5); its locals are dead
MonAsleep == [MonOff EXCEPT !.pc = "sleep", !.wake = now + MonitorSleep]

\* the loop condition taken as true whatever the flag says
MonLoopWhileTrue(m) ==
    /\ mon[m].pc = "loop"
    /\ mon' = [mon EXCEPT ![m] =
                  IF app_state.auto_play_enabled THEN [MonOff EXCEPT !.pc = "stable"]
                  ELSE MonAsleep]
    /\ UNCHANGED <<engine_vars, det, camera_vars, cfg, reader, now, observer_vars,
                   call_vars, app_state, music_manager, switched, playback>>

\* the loop taken without the test of app_state['auto_play_enabled']
MonLoopAutoPlayUntested(m) ==
    /\ mon[m].pc = "loop"
    /\ mon' = [mon EXCEPT ![m] =
                  IF ~app_state.mood_detection_active THEN MonOff
                  ELSE [MonOff EXCEPT !.pc = "stable"]]
    /\ UNCHANGED <<engine_vars, det, camera_vars, cfg, reader, now, observer_vars,
                   call_vars, app_state, music_manager, switched, playback>>

\* while app_state['mood_detection_active'], if app_state['auto_play_enabled']
MonLoop(m) ==
    /\ mon[m].pc = "loop"
    /\ mon' = [mon EXCEPT ![m] =
                  IF ~app_state.mood_detection_active THEN MonOff
                  ELSE IF app_state.auto_play_enabled THEN [MonOff EXCEPT !.pc = "stable"]
                  ELSE MonAsleep]
    /\ UNCHANGED <<engine_vars, det, camera_vars, cfg, reader, now, observer_vars,
                   call_vars, app_state, music_manager, switched, playback>>

\* stable_mood = mood_detector.get_stable_mood(window_seconds=...)
MonStable(m) ==
    /\ mon[m].pc = "stable"
    /\ mon' = [mon EXCEPT ![m].pc = "time",
                          ![m].stable_mood =
                              get_stable_mood(mood_history, current_mood, emotion_intensity,
                                              now, app_state.mood_stability_window)]
    /\ UNCHANGED <<engine_vars, det, camera_vars, cfg, reader, now, observer_vars,
                   call_vars, app_state, music_manager, switched, playback>>

\* current_time = time.time()
MonTime(m) ==
    /\ mon[m].pc = "time"
    /\ mon' = [mon EXCEPT ![m].pc = "read", ![m].current_time = now]
    /\ UNCHANGED <<engine_vars, det, camera_vars, cfg, reader, now, observer_vars,
                   call_vars, app_state, music_manager, switched, playback>>

\* current_mood_data = mood_detector.get_current_mood(), under mood_lock
MonRead(m) ==
    /\ mon[m].pc = "read"
    /\ mood_lock = "free"
    /\ mon' = [mon EXCEPT ![m].pc = "cooldown", ![m].confidence = mood_confidence]
    /\ UNCHANGED <<engine_vars, det, camera_vars, cfg, reader, now, observer_vars,
                   call_vars, app_state, music_manager, switched, playback>>

\* (current_time - app_state['last_mood_change']) > app_state['mood_change_cooldown']
cooldown_over(m) ==
    mon[m].current_time - app_state.last_mood_change > app_state.mood_change_cooldown

MonCooldown(m) ==
    /\ mon[m].pc = "cooldown"
    /\ mon' = [mon EXCEPT ![m] = IF cooldown_over(m) THEN [@ EXCEPT !.pc = "gate"]
                                 ELSE MonAsleep]
    /\ UNCHANGED <<engine_vars, det, camera_vars, cfg, reader, now, observer_vars,
                   call_vars, app_state, music_manager, switched, playback>>

\* the lower gate applied to every mood, not only to happy, sad and angry
should_change_mood_any_mood(m) ==
    /\ mon[m].stable_mood # music_manager.current_mood
    /\ mon[m].confidence > StrongSwitchGate

\* should_change_mood
should_change_mood(m) ==
    /\ mon[m].stable_mood # music_manager.current_mood
    /\ \/ mon[m].confidence > SwitchGate
       \/ mon[m].stable_mood \in StrongMoods /\ mon[m].confidence > StrongSwitchGate

MonGate(m) ==
    /\ mon[m].pc = "gate"
    /\ mon' = [mon EXCEPT ![m] = IF should_change_mood(m) THEN [@ EXCEPT !.pc = "play"]
                                 ELSE MonAsleep]
    /\ UNCHANGED <<engine_vars, det, camera_vars, cfg, reader, now, observer_vars,
                   call_vars, app_state, music_manager, switched, playback>>

\* music_manager.play_mood_music(stable_mood)
MonPlay(m) ==
    /\ mon[m].pc = "play"
    /\ music_manager' = play_mood_music(music_manager, mon[m].stable_mood)
    /\ switched' = LastN(Append(switched, now), 2)
    /\ mon' = [mon EXCEPT ![m].pc = "stamp"]
    /\ UNCHANGED <<engine_vars, det, camera_vars, cfg, reader, now, observer_vars,
                   call_vars, app_state, playback>>

\* the clock read again when the call returns
stamp_time_now(m) == now

\* current_time, sampled before the checks of this iteration
stamp_time(m) == mon[m].current_time

\* app_state['last_mood_change'] = current_time
MonStamp(m) ==
    /\ mon[m].pc = "stamp"
    /\ app_state' = [app_state EXCEPT !.last_mood_change = stamp_time(m)]
    /\ mon' = [mon EXCEPT ![m] = MonAsleep]
    /\ UNCHANGED <<engine_vars, det, camera_vars, cfg, reader, now, observer_vars,
                   call_vars, music_manager, switched, playback>>

\* time.sleep(1.5) returns
MonWake(m) ==
    /\ mon[m].pc = "sleep"
    /\ now >= mon[m].wake
    /\ mon' = [mon EXCEPT ![m] = [MonOff EXCEPT !.pc = "loop"]]
    /\ UNCHANGED <<engine_vars, det, camera_vars, cfg, reader, now, observer_vars,
                   call_vars, app_state, music_manager, switched, playback>>

\* the steps of the monitor threads
MonNext ==
    \/ \E m \in Monitors : MonLoop(m)
    \/ \E m \in Monitors : MonStable(m)
    \/ \E m \in Monitors : MonTime(m)
    \/ \E m \in Monitors : MonRead(m)
    \/ \E m \in Monitors : MonCooldown(m)
    \/ \E m \in Monitors : MonGate(m)
    \/ \E m \in Monitors : MonPlay(m)
    \/ \E m \in Monitors : MonStamp(m)
    \/ \E m \in Monitors : MonWake(m)

----------------------------------------------------------------------------
(* The request handlers of app.py *)

\* the first monitor thread that is not running
FreeMonThread ==
    MonOrder[CHOOSE i \in DOMAIN MonOrder :
                /\ mon[MonOrder[i]].pc = "off"
                /\ \A j \in 1..(i - 1) : mon[MonOrder[j]].pc # "off"]

\* /api/start_detection when the camera opens: the detector starts, the flag
\* is set and a new thread runs mood_monitor_loop
StartDetection ==
    /\ \E m \in Monitors : mon[m].pc = "off"
    /\ detector_start_opened
    /\ app_state' = [app_state EXCEPT !.mood_detection_active = TRUE]
    /\ mon' = [mon EXCEPT ![FreeMonThread] = [MonOff EXCEPT !.pc = "loop"]]
    /\ UNCHANGED <<mood_vars, param_vars, emotion_history, mood_lock, camera_vars,
                   cfg, reader, now, observer_vars, call_vars, music_manager, switched, playback>>

\* /api/start_detection when the camera does not open: 'Failed to start camera'
StartDetectionFailed ==
    /\ camera_opened
    /\ detector_start_failed
    /\ UNCHANGED <<mood_vars, param_vars, emotion_history, mood_lock, camera_vars,
                   cfg, reader, now, observer_vars, call_vars, app_vars>>

\* /api/stop_detection
StopDetection ==
    /\ is_detecting \/ app_state.mood_detection_active
    /\ detector_stop
    /\ app_state' = [app_state EXCEPT !.mood_detection_active = FALSE]
    /\ UNCHANGED <<mood_vars, param_vars, emotion_history, mood_lock, det,
                   camera_vars, cfg, reader, now, observer_vars, call_vars,
                   mon, music_manager, switched, playback>>

----------------------------------------------------------------------------
(* The application: request handlers, the detection thread, the monitor
   threads and the clock *)

\* the server has been up for this long when the first request arrives
UpTime == 9

\* the last instant at which the clock advances while the threads wait
MaxTime == 12

\* the number of frames the camera delivers
AppFrames == 2

AppFrameSet == {NoFace, HappyStrong, SadFaint}

\* time passes while the monitor threads wait and no frame is in progress;
\* time.sleep(1.5) returns when the time is up
Tick ==
    /\ now < MaxTime
    /\ \A m \in Monitors : mon[m].pc \in {"off", "sleep"}
    /\ \A m \in Monitors : mon[m].pc = "sleep" => now < mon[m].wake
    /\ \A t \in DOMAIN det : det[t].pc \in {"off", "loop", "sleep"}
    /\ now' = now + 1
    /\ UNCHANGED <<engine_vars, det, camera_vars, cfg, reader, observer_vars,
                   call_vars, app_vars>>

Init ==
    /\ EngineInit
    /\ det = [t \in {"d1"} |-> DetOff]
    /\ reader = [r \in Readers |-> ReaderIdle]
    /\ script \in [1..AppFrames -> AppFrameSet]
    /\ frame_no = 0
    /\ horizon = AppFrames
    /\ cfg = CfgIdle(0)
    /\ now = UpTime
    /\ accepted = {}
    /\ n_appended = 0
    /\ call = <<>>
    /\ ret = <<>>
    /\ AppInit

Next ==
    \/ StartDetection \/ StartDetectionFailed \/ StopDetection
    \/ DetNext
    \/ MonNext
    \/ Tick

Spec == Init /\ [][Next]_vars

\* C1: mood_monitor_loop never calls play_mood_music twice within the
\* cooldown: two consecutive calls are more than mood_change_cooldown apart.
C1_OneSwitchPerCooldown ==
    Len(switched) = 2 => switched[2] - switched[1] > app_state.mood_change_cooldown

----------------------------------------------------------------------------
(* The monitor threads over a detector whose history holds accepted
   observations *)

MonitorHistLen == 2

\* observations of the last seconds before the first request
MonitorEntries ==
    [mood : {"happy", "fear", "sad"}, confidence : {2000, 3500, 6000},
     timestamp : {UpTime - 1}]

\* the histories the detection loop can have written: every entry passed its
\* label's threshold and the gate on the entries before it
AcceptedHistories ==
    {h \in SeqUpTo(MonitorEntries, MonitorHistLen) :
        \A k \in DOMAIN h :
            /\ h[k].confidence > DefaultEmotionThresholds[h[k].mood]
            /\ is_mood_stable(SubSeq(h, 1, k - 1), h[k].mood, h[k].confidence)}

\* the detection loop has stopped after the last of these observations; the
\* camera delivers no frame afterwards
InitMonitor ==
    /\ ParamsInit
    /\ QuietInit
    /\ mood_history \in AcceptedHistories
    /\ current_mood = IF mood_history = <<>> THEN "neutral" ELSE Last(mood_history).mood
    /\ mood_confidence = IF mood_history = <<>> THEN 0 ELSE Last(mood_history).confidence
    /\ emotion_history = [m \in Moods |-> <<>>]
    /\ is_detecting = FALSE
    /\ mood_lock = "free"
    /\ camera_opened = FALSE
    /\ now = UpTime
    /\ call = <<>>

\* play_mood_music takes its time to load the track: the clock moves on
\* before the call returns
Loading ==
    /\ now < MaxTime
    /\ \E m \in Monitors : mon[m].pc = "stamp" /\ mon[m].current_time = now
    /\ now' = now + 1
    /\ UNCHANGED <<engine_vars, det, camera_vars, cfg, reader, observer_vars,
                   call_vars, app_vars>>

NextMonitor ==
    \/ StartDetection \/ StopDetection
    \/ \E t \in DOMAIN det : DetExit(t)
    \/ MonNext
    \/ Tick
    \/ Loading

SpecMonitor == InitMonitor /\ [][NextMonitor]_vars

\* the monitor thread m takes the step that leads from one position to another
Steps(m, from, to) == mon[m].pc = from /\ mon'[m].pc = to

\* the thread m leaves the position it is at
Leaves(m, from) == mon[m].pc = from /\ mon'[m].pc # from

\* C13: a tick of the monitor loop (auto-play enabled) goes on from the
\* cooldown check exactly when current_time - last_mood_change exceeds the
\* cooldown, goes on from there to play_mood_music(stable) exactly when stable
\* differs from the mood the music manager serves and the confidence c of the
\* current mood is above 0.4, or above 0.3 with stable one of happy, sad,
\* angry; stable is get_stable_mood over the configured window and c the
\* confidence field of the detector; play_mood_music is invoked in no other
\* step.
C13_SwitchIff ==
    [][ /\ \A m \in Monitors :
              /\ Leaves(m, "stable") =>
                    mon'[m].stable_mood =
                        get_stable_mood(mood_history, current_mood, emotion_intensity,
                                        now, app_state.mood_stability_window)
              /\ Leaves(m, "read") => mon'[m].confidence = mood_confidence
              /\ Leaves(m, "cooldown") =>
                    /\ mon'[m].pc \in {"gate", "sleep"}
                    /\ mon'[m].pc = "gate" <=>
                          mon[m].current_time - app_state.last_mood_change
                              > app_state.mood_change_cooldown
              /\ Leaves(m, "gate") =>
                    /\ mon'[m].pc \in {"play", "sleep"}
                    /\ mon'[m].pc = "play" <=>
                          /\ mon[m].stable_mood # music_manager.current_mood
                          /\ \/ mon[m].confidence > 4000
                             \/ /\ mon[m].stable_mood \in {"happy", "sad", "angry"}
                                /\ mon[m].confidence > 3000
              /\ Leaves(m, "play") =>
                    /\ music_manager' = play_mood_music(music_manager, mon[m].stable_mood)
                    /\ switched' # switched
        /\ switched' # switched => \E m \in Monitors : Steps(m, "play", "stamp")
        /\ (\E m \in Monitors : mon'[m].pc = "play" /\ mon[m].pc # "play") =>
              app_state.auto_play_enabled
      ]_vars

\* a tick whose stable mood is fear and whose confidence reading is 0.6 has
\* found the cooldown over and has invoked play_mood_music
C13_Witness ==
    /\ \E m \in Monitors :
          /\ mon[m].pc = "stamp"
          /\ mon[m].stable_mood = "fear"
          /\ mon[m].confidence = 6000
          /\ mon[m].current_time - app_state.last_mood_change > app_state.mood_change_cooldown
    /\ Len(switched) = 1

\* C14: last_mood_change changes only in the step of a tick that follows its
\* invocation of play_mood_music, and becomes the time that tick sampled
\* before its checks; every other step of a tick, the invocation apart, leaves
\* last_mood_change and the music manager as they are.
C14_StampAfterSwitch ==
    [][ /\ app_state'.last_mood_change # app_state.last_mood_change =>
              \E m \in Monitors :
                  /\ Steps(m, "stamp", "sleep")
                  /\ app_state'.last_mood_change = mon[m].current_time
        /\ \A m \in Monitors :
              /\ mon'[m].pc = "stamp" /\ mon[m].pc # "stamp" =>
                    /\ mon[m].pc = "play"
                    /\ switched' # switched
              /\ Leaves(m, "stamp") =>
                    app_state'.last_mood_change = mon[m].current_time
              /\ mon[m].pc \notin {"play", "stamp"} /\ mon'[m] # mon[m] =>
                    /\ app_state'.last_mood_change = app_state.last_mood_change
                    /\ music_manager' = music_manager
        /\ music_manager' # music_manager => \E m \in Monitors : Steps(m, "play", "stamp")
      ]_vars

\* a tick has stamped the time it sampled, the call having taken a second
C14_Witness ==
    /\ Len(switched) = 1
    /\ app_state.last_mood_change = switched[1]
    /\ now > app_state.last_mood_change
    /\ \E m \in Monitors : mon[m].pc = "sleep" /\ mon[m].wake > now
    /\ music_manager.current_mood # "neutral"

----------------------------------------------------------------------------
(* One monitor thread over a history of one mood, for as long as two cooldowns *)

\* the clock runs until the first tick after the cooldown that follows the
\* first tick
RetryMaxTime == UpTime + DefaultCooldown + MonitorSleep

\* the accepted observations are all of one mood, and there are enough of
\* them for get_stable_mood to return it
RetryHistories ==
    {h \in AcceptedHistories : Len(h) >= MinConsistency /\ Cardinality(MoodsOf(h)) = 1}

\* the mood of the observations
RetryMood == Last(mood_history).mood

\* /api/start_detection has been served once: the detection thread and one
\* monitor thread run; the camera delivers no frame after the observations
\* of one of the histories
InitRunning(histories) ==
    /\ ParamsInit
    /\ mood_history \in histories
    /\ current_mood = Last(mood_history).mood
    /\ mood_confidence = Last(mood_history).confidence
    /\ emotion_history = [m \in Moods |-> <<>>]
    /\ is_detecting = TRUE
    /\ mood_lock = "free"
    /\ camera_opened = TRUE
    /\ det = [t \in {"d1"} |-> [DetOff EXCEPT !.pc = "loop"]]
    /\ reader = [r \in Readers |-> ReaderIdle]
    /\ script = <<>>
    /\ frame_no = 0
    /\ horizon = 0
    /\ cfg = CfgIdle(0)
    /\ now = UpTime
    /\ accepted = {}
    /\ n_appended = 0
    /\ call = <<>>
    /\ ret = <<>>
    /\ app_state = [DefaultAppState(0) EXCEPT !.mood_detection_active = TRUE]
    /\ mon = [m \in Monitors |-> IF m = MonOrder[1] THEN [MonOff EXCEPT !.pc = "loop"]
                                 ELSE MonOff]
    /\ music_manager = DefaultMusicManager
    /\ switched = <<>>
    /\ playback = PlaybackOff

InitRetry == InitRunning(RetryHistories)

\* time passes while the monitor thread waits
RetryTick ==
    /\ now < RetryMaxTime
    /\ \A m \in Monitors : mon[m].pc \in {"off", "sleep"}
    /\ \A m \in Monitors : mon[m].pc = "sleep" => now < mon[m].wake
    /\ now' = now + 1
    /\ UNCHANGED <<engine_vars, det, camera_vars, cfg, reader, observer_vars,
                   call_vars, app_vars>>

NextRetry ==
    \/ StopDetection
    \/ \E t \in DOMAIN det : DetExit(t)
    \/ MonNext
    \/ RetryTick

SpecRetry == InitRetry /\ [][NextRetry]_vars

\* every tick of SpecRetry finds the mood of the observations stable
RetryStableStays ==
    \A m \in Monitors :
        mon[m].pc \in {"time", "read", "cooldown", "gate", "play", "stamp"} =>
            mon[m].stable_mood = RetryMood

\* C25: when the observations are all of one mood, no observation is added
\* and that mood has no tracks, the monitor loop invokes play_mood_music at
\* most once: the failed switch is not repeated on a later tick.
C25_NoRetryAfterFailure ==
    get_songs_by_mood(music_manager, RetryMood) = <<>> => Len(switched) <= 1

----------------------------------------------------------------------------
(* One monitor thread while the observations age out of the window *)

AgingHistLen == 3

\* observations of happy and sad, early or just before the request
AgingEntries ==
    {[mood |-> "happy", confidence |-> 9000, timestamp |-> ts] : ts \in {1, UpTime - 1}}
        \cup {[mood |-> "sad", confidence |-> 6000, timestamp |-> ts] : ts \in {1, UpTime - 1}}

\* the histories the detection loop can have written with these observations
AgingHistories ==
    {h \in SeqUpTo(AgingEntries, AgingHistLen) :
        /\ h # <<>>
        /\ \A k \in 1..(Len(h) - 1) : h[k].timestamp <= h[k + 1].timestamp
        /\ \A k \in DOMAIN h :
              /\ h[k].confidence > DefaultEmotionThresholds[h[k].mood]
              /\ is_mood_stable(SubSeq(h, 1, k - 1), h[k].mood, h[k].confidence)}

InitAging == InitRunning(AgingHistories)

SpecAging == InitAging /\ [][NextRetry]_vars

\* what get_stable_mood returned to a call at the time of the request
StableAtStart ==
    get_stable_mood(mood_history, current_mood, emotion_intensity, UpTime,
                    app_state.mood_stability_window)

\* the entries of mood_history that are inside the window at time t
EntriesInWindow(t) ==
    {i \in DOMAIN mood_history :
        t - mood_history[i].timestamp <= app_state.mood_stability_window}

\* C28 as stated: with mood_history and current_mood unchanged, every tick
\* finds the stable mood a call at the time of the request returned, whatever
\* time has passed.
C28_StableUnderTime ==
    \A m \in Monitors :
        mon[m].pc \in {"time", "read", "cooldown", "gate", "play", "stamp"} =>
            mon[m].stable_mood = StableAtStart

\* C28: with mood_history and current_mood unchanged, a tick finds the stable
\* mood a call at the time of the request returned as long as the same
\* entries are inside the window; entries only leave the window as time
\* advances, and once none is left the tick finds current_mood.
C28_StableWhileWindowKeeps ==
    [][ /\ mood_history' = mood_history
        /\ current_mood' = current_mood
        /\ \A m \in Monitors :
              Leaves(m, "stable") =>
                  /\ EntriesInWindow(now) \subseteq EntriesInWindow(UpTime)
                  /\ EntriesInWindow(now) = EntriesInWindow(UpTime) =>
                        mon'[m].stable_mood = StableAtStart
                  /\ EntriesInWindow(now) = {} => mon'[m].stable_mood = current_mood ]_vars

\* two happy observations have left the window, the sad one after them is
\* alone in it: the stable mood was happy at the request and is neutral now,
\* and the loop has invoked play_mood_music a second time for it
C28_Witness ==
    /\ StableAtStart = "happy"
    /\ current_mood = "sad"
    /\ EntriesInWindow(now) # EntriesInWindow(UpTime)
    /\ \E m \in Monitors : mon[m].pc = "stamp" /\ mon[m].stable_mood = "neutral"
    /\ Len(switched) = 2

----------------------------------------------------------------------------
(* Stopping: the threads after /api/stop_detection, under fair scheduling *)

StopFrames == 1

StopFrameSet == {NoFace, HappyStrong, One("contempt", 900)}

\* the history before the first request: self.mood_history = []
StopHistories == {<<>>}

\* the application before its first request, the detector holding one of
\* the histories, the camera showing one of the scenes
InitWatching(histories) ==
    /\ ParamsInit
    /\ mood_history \in histories
    /\ current_mood = IF mood_history = <<>> THEN "neutral" ELSE Last(mood_history).mood
    /\ mood_confidence = IF mood_history = <<>> THEN 0 ELSE Last(mood_history).confidence
    /\ emotion_history = [m \in Moods |-> <<>>]
    /\ is_detecting = FALSE
    /\ mood_lock = "free"
    /\ camera_opened = FALSE
    /\ det = [t \in {"d1"} |-> DetOff]
    /\ reader = [r \in Readers |-> ReaderIdle]
    \* the camera shows one scene throughout
    /\ script \in [1..1 -> StopFrameSet]
    /\ frame_no = 0
    /\ horizon = StopFrames
    /\ cfg = CfgIdle(0)
    /\ now = UpTime
    /\ accepted = {}
    /\ n_appended = 0
    /\ call = <<>>
    /\ ret = <<>>
    /\ AppInit

InitStop == InitWatching(StopHistories)

\* the steps of one monitor thread between two sleeps
MonStep(m) ==
    \/ MonLoop(m) \/ MonStable(m) \/ MonTime(m) \/ MonRead(m) \/ MonCooldown(m)
    \/ MonGate(m) \/ MonPlay(m) \/ MonStamp(m)

\* time.sleep(1.5) returns; the clock is not followed here, every tick
\* samples the time of the first request
SleepOut(m) ==
    /\ mon[m].pc = "sleep"
    /\ mon' = [mon EXCEPT ![m] = [MonOff EXCEPT !.pc = "loop"]]
    /\ UNCHANGED <<engine_vars, det, camera_vars, cfg, reader, now, observer_vars,
                   call_vars, app_state, music_manager, switched, playback>>

NextStop ==
    \/ StartDetection \/ StopDetection
    \/ DetNext
    \/ \E m \in Monitors : MonStep(m)
    \/ \E m \in Monitors : SleepOut(m)

\* the steps of a detection thread that do not wait for the camera
DetStep(t) ==
    \/ DetExit(t) \/ DetThreshold(t) \/ DetAcquire(t) \/ DetReject(t) \/ DetSetMood(t)
    \/ DetSetConfidence(t) \/ DetAppend(t) \/ DetEvict(t) \/ DetSleep(t)

\* every thread that can run does run; whether the camera delivers a frame
\* is left open
FairStop ==
    /\ \A m \in Monitors : WF_vars(MonStep(m) \/ SleepOut(m))
    /\ \A t \in {"d1"} : WF_vars(DetStep(t))

SpecStop == InitStop /\ [][NextStop]_vars /\ FairStop

\* the history before the first request: empty, or fear accepted twice,
\* the second time with a confidence below the switch gate
TickHistories ==
    {h \in AcceptedHistories :
        h = <<>> \/ (Len(h) = 2 /\ MoodsOf(h) = {"fear"} /\ h[2].confidence < SwitchGate)}

InitTick == InitWatching(TickHistories)

\* the detection thread and the monitor threads side by side
SpecTick == InitTick /\ [][NextStop]_vars

\* C24: a monitor thread begins a tick only when it finds the flag set and
\* ends when it finds it cleared, and a detection thread ends when it finds
\* is_detecting cleared; so whenever mood_detection_active is false, either
\* it is set again or eventually every monitor thread is off, having invoked
\* play_mood_music at most in the tick it was in, and whenever is_detecting
\* is false, either it is set again or eventually the detection thread is
\* off and accepts nothing more.
C24_StopsWhenInactive ==
    /\ [][ /\ \A m \in Monitors :
                 Leaves(m, "loop") =>
                     IF app_state.mood_detection_active
                     THEN mon'[m].pc = "stable"
                     ELSE mon'[m].pc = "off"
           /\ \A t \in DOMAIN det :
                 (det[t].pc = "loop" /\ det'[t].pc # "loop" /\ ~is_detecting) =>
                     det'[t].pc = "off" ]_vars
    /\ (~app_state.mood_detection_active)
          ~> (app_state.mood_detection_active \/ \A m \in Monitors : mon[m].pc = "off")
    /\ (~is_detecting)
          ~> (is_detecting \/ \A t \in DOMAIN det : det[t].pc = "off")

\* detection has been stopped and both threads have ended, after a switch to
\* happy and an accepted observation
C24_Witness ==
    /\ ~app_state.mood_detection_active
    /\ ~is_detecting
    /\ \A m \in Monitors : mon[m].pc = "off"
    /\ \A t \in DOMAIN det : det[t].pc = "off"
    /\ Len(switched) = 1
    /\ music_manager.current_mood = "happy"
    /\ n_appended = 1

----------------------------------------------------------------------------
(* _smooth_emotions as a function: one call on a smoothing history that
   earlier frames have filled *)

SmoothScores == {0, 300, 900}
SmoothFactors == {3, 6}
SmoothLabels == {"happy", "sad", "contempt"}

\* self.emotion_history when the label's list holds h (at most 5 scores)
HistoryOf(label, h) == [m \in Moods |-> IF m = label THEN h ELSE <<>>]

InitSmooth ==
    /\ QuietInit
    /\ confidence_threshold = DefaultConfidenceThreshold
    /\ emotion_smoothing \in SmoothFactors
    /\ emotion_intensity = DefaultEmotionIntensity
    /\ emotion_thresholds = DefaultEmotionThresholds
    /\ current_mood = "neutral"
    /\ mood_confidence = 0
    /\ mood_history = <<>>
    /\ is_detecting = FALSE
    /\ mood_lock = "free"
    /\ camera_opened = FALSE
    /\ now = 0
    /\ \E label \in SmoothLabels, score \in SmoothScores,
          h \in SeqUpTo(SmoothScores, SmoothingCap) :
          /\ emotion_history = HistoryOf(label, h)
          /\ call = [emotion_scores |-> << [emotion |-> label, score |-> score] >>,
                     history |-> h]

\* smoothed_scores = self._smooth_emotions(emotion_scores)
SmoothCall ==
    /\ ret = <<>>
    /\ ret' = << smooth_emotions(emotion_history, call.emotion_scores, emotion_smoothing) >>
    /\ emotion_history' = smooth_history(emotion_history, call.emotion_scores)
    /\ UNCHANGED <<mood_vars, param_vars, is_detecting, mood_lock, camera_opened, det,
                   camera_vars, cfg, reader, now, observer_vars, call, app_vars>>

NextSmooth == SmoothCall

SpecSmooth == InitSmooth /\ [][NextSmooth]_vars

\* C20: after _smooth_emotions the label's history is the old one with the
\* raw score appended, cut to its last 5; the value returned for the label is
\* the raw score when that history holds one entry (or the label has no
\* history), and otherwise the weighted average, cut to 1/1000, in which the
\* entry k places before the newest weighs smoothing^k; it lies between the
\* smallest and the largest score of the history.
C20_WeightedAverage ==
    ret # <<>> =>
        LET label == call.emotion_scores[1].emotion
            raw == call.emotion_scores[1].score
            result == ret[1][1].score
        IN  /\ ret[1][1].emotion = label
            /\ label \notin Moods =>
                  /\ result = raw
                  /\ \A m \in Moods : emotion_history[m] = <<>>
            /\ label \in Moods =>
                  LET h == emotion_history[label]
                      n == Len(h)
                      \* the weight smoothing^k of the entry k places before
                      \* the newest, times 10^(n - 1)
                      w == [k \in 0..(n - 1) |->
                               Pow(emotion_smoothing, k) * Pow(10, n - 1 - k)]
                      total == SumOver(0..(n - 1), w)
                      weighted == SumOver(0..(n - 1), [k \in 0..(n - 1) |-> w[k] * h[n - k]])
                  IN  /\ h = LastN(Append(call.history, raw), 5)
                      /\ n = 1 => result = raw
                      /\ n > 1 =>
                            /\ result * total <= weighted
                            /\ weighted < (result + 1) * total
                      /\ \E i \in DOMAIN h : h[i] <= result
                      /\ \E i \in DOMAIN h : result <= h[i]

\* a sixth score has been pushed on a full history of unequal scores: the
\* oldest is gone and the result lies strictly between two of them
C20_Witness ==
    /\ ret # <<>>
    /\ Len(call.history) = 5
    /\ call.history[1] = 900
    /\ emotion_history["sad"] = <<0, 0, 300, 900, 300>>
    /\ ret[1][1].score > 300
    /\ ret[1][1].score < 900

----------------------------------------------------------------------------
(* _get_dominant_emotion as a function of the smoothed score mapping *)

DominantLen == 2

DominantLabels == {"happy", "neutral", "contempt"}
DominantScores == {300, 390, 400, 450}

\* the mappings of up to DominantLen labels, in every key order
DominantMappings ==
    {scores \in SeqUpTo([emotion : DominantLabels, score : DominantScores], DominantLen) :
        \A i, j \in DOMAIN scores : scores[i].emotion = scores[j].emotion => i = j}

InitDominant ==
    /\ EngineInit
    /\ QuietInit
    /\ now = 0
    /\ call \in [emotion_scores : DominantMappings]

\* dominant_emotion, confidence = self._get_dominant_emotion(smoothed_scores)
DominantCall == Returns(get_dominant_emotion(call.emotion_scores, emotion_intensity))

NextDominant == DominantCall

SpecDominant == InitDominant /\ [][NextDominant]_vars

\* C23: _get_dominant_emotion returns (neutral, 0.0) for the empty mapping;
\* (neutral, top score) when the mapping holds two labels or more, the top
\* score exceeds the next by less than 0.1 and is below 0.4; and otherwise the
\* top label, the first in key order among equals, with the top score times
\* its intensity (0.5 for a label without one).
C23_DominantEmotion ==
    ret # <<>> =>
        LET scores == call.emotion_scores
            top == CHOOSE i \in DOMAIN scores :
                      /\ \A j \in DOMAIN scores : scores[j].score <= scores[i].score
                      /\ \A j \in 1..(i - 1) : scores[j].score < scores[i].score
            second == CHOOSE i \in DOMAIN scores \ {top} :
                         \A j \in DOMAIN scores \ {top} : scores[j].score <= scores[i].score
        IN  IF scores = <<>>
            THEN ret[1] = [emotion |-> "neutral", confidence |-> 0]
            ELSE IF /\ Len(scores) >= 2
                    /\ scores[top].score - scores[second].score < 100
                    /\ scores[top].score < 400
            THEN ret[1] = [emotion |-> "neutral", confidence |-> scores[top].score * 10]
            ELSE /\ ret[1].emotion = scores[top].emotion
                 /\ ret[1].confidence =
                       scores[top].score *
                          (IF scores[top].emotion \in DOMAIN DefaultEmotionIntensity
                           THEN DefaultEmotionIntensity[scores[top].emotion] ELSE 5)

\* the mapping {contempt: 0.39, happy: 0.4}: the two are close but the top
\* score is not below 0.4, the result is (happy, 0.4)
C23_Witness ==
    /\ ret # <<>>
    /\ Len(call.emotion_scores) = 2
    /\ call.emotion_scores[1] = [emotion |-> "contempt", score |-> 390]
    /\ call.emotion_scores[2] = [emotion |-> "happy", score |-> 400]
    /\ ret[1] = [emotion |-> "happy", confidence |-> 4000]

----------------------------------------------------------------------------
(* The music manager under requests to switch, pause, resume and skip *)

\* the labels play_mood_music is called with: one with tracks, one without,
\* and neutral
SwitchMoods == {"happy", "fear", "neutral"}

\* at most this many tracks in a mood directory
SwitchTracks == 2

TrackNames ==
    [m \in SwitchMoods |->
        CASE m = "happy" -> <<"happy_1", "happy_2", "happy_3">>
          [] m = "fear" -> <<"fear_1", "fear_2", "fear_3">>
          [] OTHER -> <<"neutral_1", "neutral_2", "neutral_3">>]

\* what _scan_music_library can find in the directories of these moods
SwitchLibraries ==
    {[m \in Moods |-> IF m \in SwitchMoods THEN SubSeq(TrackNames[m], 1, n[m]) ELSE <<>>] :
        n \in [SwitchMoods -> 0..SwitchTracks]}

InitSwitch ==
    /\ EngineInit
    /\ det = [t \in {"d1"} |-> DetOff]
    /\ reader = [r \in Readers |-> ReaderIdle]
    /\ script = <<>>
    /\ frame_no = 0
    /\ horizon = 0
    /\ cfg = CfgIdle(0)
    /\ accepted = {}
    /\ n_appended = 0
    /\ ret = <<>>
    /\ now = 0
    /\ call = <<>>
    /\ app_state = DefaultAppState(0)
    /\ mon = [m \in Monitors |-> MonOff]
    /\ \E library \in SwitchLibraries :
          music_manager = [DefaultMusicManager EXCEPT !.music_library = library]
    /\ switched = <<>>
    /\ playback = PlaybackOff

\* play_mood_music(mood); call keeps the label, the number of tracks the
\* call loaded, and whether the call before it, with nothing between, had
\* the same label
PlayMoodMusic ==
    \E mood \in SwitchMoods :
        /\ music_manager' = play_mood_music(music_manager, mood)
        /\ call' = [mood |-> mood,
                    loaded |-> tracks_loaded(music_manager, mood),
                    repeated |-> call # <<>> /\ call.mood = mood]
        /\ UNCHANGED <<engine_vars, det, camera_vars, cfg, reader, now,
                       observer_vars, ret, app_state, mon, switched, playback>>

\* MusicManager.stop
stop_music(mm) ==
    [mm EXCEPT !.is_playing = FALSE, !.is_paused = FALSE, !.current_song = NoSong]

\* next_song that advances without the test against the end of the playlist
next_song_past_end(mm) ==
    IF mm.playlist = <<>> THEN mm
    ELSE [mm EXCEPT !.current_index = @ + 1, !.is_playing = TRUE, !.is_paused = FALSE]

\* MusicManager.next_song
next_song(mm) ==
    IF mm.playlist = <<>> THEN mm
    ELSE IF mm.current_index < Len(mm.playlist) - 1
    THEN play_current_song([mm EXCEPT !.current_index = @ + 1])
    ELSE IF mm.repeat_mode
    THEN play_current_song([mm EXCEPT !.current_index = 0])
    ELSE stop_music(mm)

\* MusicManager.pause
pause(mm) ==
    IF mm.is_playing /\ ~mm.is_paused THEN [mm EXCEPT !.is_paused = TRUE] ELSE mm

\* MusicManager.resume
resume(mm) ==
    IF mm.is_playing /\ mm.is_paused THEN [mm EXCEPT !.is_paused = FALSE] ELSE mm

\* a request that changes the player to the state after
PlayerRequest(after) ==
    /\ after # music_manager
    /\ music_manager' = after
    /\ call' = <<>>
    /\ UNCHANGED <<engine_vars, det, camera_vars, cfg, reader, now,
                   observer_vars, ret, app_state, mon, switched, playback>>

NextSong == PlayerRequest(next_song(music_manager))

Pause == PlayerRequest(pause(music_manager))

Resume == PlayerRequest(resume(music_manager))

NextSwitch == PlayMoodMusic \/ NextSong \/ Pause \/ Resume

SpecSwitch == InitSwitch /\ [][NextSwitch]_vars

\* the step is a call play_mood_music(mood)
Switches(mood) == call' # <<>> /\ call'.mood = mood

\* C26 as stated: play_mood_music(m) changes nothing and loads no track when
\* m is the mood being served, and likewise when it repeats the call before
\* it with the same label, whatever the label.
C26_RepeatIsNoOp ==
    [][ \A m \in SwitchMoods :
            (Switches(m) /\ (m = music_manager.current_mood \/ call'.repeated)) =>
                music_manager' = music_manager /\ call'.loaded = 0 ]_vars

\* C26: play_mood_music(m) changes nothing and loads no track when m is the
\* mood being served; a call that repeats the call before it changes nothing
\* and loads no track when m has tracks or is neutral, while for a label
\* without tracks the repeated call falls back to neutral again and, when
\* neutral has tracks, loads the first neutral track once more.
C26_NoOpWhenServed ==
    [][ \A m \in SwitchMoods :
            Switches(m) =>
                /\ m = music_manager.current_mood =>
                      music_manager' = music_manager /\ call'.loaded = 0
                /\ (call'.repeated /\ (music_manager.music_library[m] # <<>> \/ m = "neutral")) =>
                      music_manager' = music_manager /\ call'.loaded = 0
                /\ (call'.repeated /\ music_manager.music_library[m] = <<>> /\ m # "neutral") =>
                      /\ music_manager'.current_mood = "neutral"
                      /\ IF music_manager.music_library["neutral"] = <<>>
                         THEN music_manager' = music_manager /\ call'.loaded = 0
                         ELSE /\ call'.loaded = 1
                              /\ music_manager'.current_index = 0
                              /\ music_manager'.current_song =
                                    music_manager.music_library["neutral"][1]
                              /\ music_manager'.is_playing
                              /\ ~music_manager'.is_paused ]_vars

\* play_mood_music("happy") was called twice in a row while the second happy
\* track was paused: the second call has loaded nothing and the track is
\* still the second one, paused
C26_Witness ==
    /\ call # <<>>
    /\ call.mood = "happy"
    /\ call.repeated
    /\ call.loaded = 0
    /\ music_manager.current_mood = "happy"
    /\ music_manager.current_index = 1
    /\ music_manager.is_paused

\* the step is a call play_mood_music(m) for a label without tracks
SwitchesTrackless(m) == Switches(m) /\ get_songs_by_mood(music_manager, m) = <<>>

\* the category served after play_mood_music(m)
ServedAfter(m) ==
    IF get_songs_by_mood(music_manager, m) # <<>> THEN m ELSE "neutral"

\* C34 as stated: play_mood_music(m) for a label without tracks, when neutral
\* is being served, leaves playlist, current_index and current_song as they
\* are and loads no track; after every call the served category is m if m
\* has tracks and neutral otherwise.
C34_FailsUndisturbed ==
    [][ \A m \in SwitchMoods :
            /\ (SwitchesTrackless(m) /\ music_manager.current_mood = "neutral") =>
                  /\ music_manager'.playlist = music_manager.playlist
                  /\ music_manager'.current_index = music_manager.current_index
                  /\ music_manager'.current_song = music_manager.current_song
                  /\ call'.loaded = 0
            /\ Switches(m) => music_manager'.current_mood = ServedAfter(m) ]_vars

\* C34: after play_mood_music(m) the served category is m if m has tracks and
\* neutral otherwise. For a label m without tracks: when neutral has no tracks
\* either, or m is neutral itself, playlist, current_index, current_song,
\* is_playing and is_paused are unchanged and no track is loaded; when m is
\* not neutral and neutral has tracks, the neutral playlist is loaded and
\* started from its first track, also when neutral was being served already.
C34_FallsBackToNeutral ==
    [][ \A m \in SwitchMoods :
            /\ Switches(m) => music_manager'.current_mood = ServedAfter(m)
            /\ SwitchesTrackless(m) =>
                  IF m = "neutral" \/ get_songs_by_mood(music_manager, "neutral") = <<>>
                  THEN /\ music_manager' =
                             [music_manager EXCEPT !.current_mood = "neutral"]
                       /\ call'.loaded = 0
                  ELSE /\ music_manager'.playlist =
                             get_songs_by_mood(music_manager, "neutral")
                       /\ music_manager'.current_index = 0
                       /\ music_manager'.current_song =
                             get_songs_by_mood(music_manager, "neutral")[1]
                       /\ music_manager'.is_playing
                       /\ ~music_manager'.is_paused
                       /\ call'.loaded = 1 ]_vars

\* play_mood_music("fear") was called twice in a row in a library with no
\* fear track and two neutral tracks: the second call found neutral served
\* and has loaded the first neutral track again
C34_Witness ==
    /\ call # <<>>
    /\ call.mood = "fear"
    /\ call.repeated
    /\ call.loaded = 1
    /\ get_songs_by_mood(music_manager, "fear") = <<>>
    /\ Len(get_songs_by_mood(music_manager, "neutral")) = 2
    /\ music_manager.current_mood = "neutral"
    /\ music_manager.current_index = 0
    /\ music_manager.current_song = "neutral_1"

----------------------------------------------------------------------------
(* The detection loop over frames whose candidate is neutral *)

NeutralFrames == 4

\* the top score below 0.4 and less than 0.1 above the next
Ambiguous ==
    << << [emotion |-> "happy", score |-> 390], [emotion |-> "surprise", score |-> 380] >> >>

\* no face, happy, the ambiguous face, and faces that are neutral or of a
\* label outside the mood mapping with the highest score there is
NeutralFrameSet ==
    {NoFace, One("happy", 900), Ambiguous, One("neutral", 1000), One("contempt", 1000)}

InitNeutral ==
    /\ EngineInit
    /\ det = [t \in StreamThreads |-> DetOff]
    /\ reader = [r \in Readers |-> ReaderIdle]
    /\ script \in [1..StreamPeriod -> NeutralFrameSet]
    /\ frame_no = 0
    /\ horizon = NeutralFrames
    /\ cfg = CfgIdle(0)
    /\ now = 0
    /\ accepted = {}
    /\ n_appended = 0
    /\ call = <<>>
    /\ ret = <<>>
    /\ AppInit

SpecNeutral == InitNeutral /\ [][NextStream]_vars

\* the candidate of the thread t is neutral: the label itself, the result of
\* the ambiguity rule, or a label the mood mapping does not hold
NeutralCandidate(t) == mood_mapping(det[t].emotion) = "neutral"

\* C30: with the default parameters a neutral candidate has a confidence of
\* at most 0.5 and never passes the gate: no entry of mood_history and no
\* accepted observation is neutral, current_mood is neutral only as long as
\* nothing was accepted and never becomes neutral again.
C30_NeverNeutral ==
    /\ [](\A t \in DOMAIN det :
              (det[t].pc \in {"threshold", "acquire", "gate"} /\ NeutralCandidate(t)) =>
                  det[t].confidence <= 5000)
    /\ [](\A t \in DOMAIN det :
              det[t].pc \in {"confidence", "append"} => ~NeutralCandidate(t))
    /\ [](\A i \in DOMAIN mood_history : mood_history[i].mood # "neutral")
    /\ [](\A p \in accepted : p[1] # "neutral")
    /\ [](current_mood = "neutral" => accepted = {} /\ mood_history = <<>>)
    /\ [][current_mood # "neutral" => current_mood' # "neutral"]_vars

\* after an observation of happy a neutral face with score 1.0 was the
\* candidate, with confidence 0.5, and the gate has rejected it
C30_Witness ==
    /\ \E t \in DOMAIN det :
          /\ det[t].pc = "sleep"
          /\ det[t].emotion = "neutral"
          /\ det[t].confidence = 5000
    /\ current_mood = "happy"
    /\ n_appended = 1
    /\ frame_no = 2
    /\ script = <<One("happy", 900), One("neutral", 1000)>>

\* a tick of the thread m holds the stable mood and has not yet read the
\* confidence
BetweenStableAndRead(m) == mon[m].pc \in {"time", "read"}

\* C32: between the computation of the stable mood and the read of the
\* confidence in one tick of a monitor thread no observation is accepted:
\* current_mood, mood_confidence and mood_history stay as they are.
C32_TickReadsOneState ==
    [][ (\E m \in Monitors : BetweenStableAndRead(m)) =>
            UNCHANGED <<current_mood, mood_confidence, mood_history>> ]_vars

\* a tick holds the stable mood fear computed from two observations of fear,
\* the last with confidence 0.35, and the confidence 0.9 of an observation
\* of happy accepted after that, and has invoked play_mood_music
TickMixesStates ==
    \E m \in Monitors :
        /\ mon[m].pc = "stamp"
        /\ mon[m].stable_mood = "fear"
        /\ mon[m].confidence = 9000
        /\ current_mood = "happy"
        /\ Len(mood_history) = 3
        /\ mood_history[2].confidence = 3500

----------------------------------------------------------------------------
(* The threads that /api/start_detection and /api/stop_detection leave
   running *)

\* the detection threads a request can start: start_detection has no test of
\* is_detecting
StartThreads == {DetOrder[i] : i \in DOMAIN DetOrder}

\* as InitMonitor, with every thread of StartThreads not yet started
InitStart ==
    /\ ParamsInit
    /\ mood_history \in AcceptedHistories
    /\ current_mood = IF mood_history = <<>> THEN "neutral" ELSE Last(mood_history).mood
    /\ mood_confidence = IF mood_history = <<>> THEN 0 ELSE Last(mood_history).confidence
    /\ emotion_history = [m \in Moods |-> <<>>]
    /\ is_detecting = FALSE
    /\ mood_lock = "free"
    /\ camera_opened = FALSE
    /\ det = [t \in StartThreads |-> DetOff]
    /\ reader = [r \in Readers |-> ReaderIdle]
    /\ script = <<>>
    /\ frame_no = 0
    /\ horizon = 0
    /\ cfg = CfgIdle(0)
    /\ now = UpTime
    /\ accepted = {}
    /\ n_appended = 0
    /\ call = <<>>
    /\ ret = <<>>
    /\ AppInit

SpecStart == InitStart /\ [][NextMonitor]_vars

\* the threads that have been started and have not returned
RunningMonitors == {m \in Monitors : mon[m].pc # "off"}
RunningDetectors == {t \in DOMAIN det : det[t].pc # "off"}

\* C31: whatever requests to start and to stop detection were served, at most
\* one mood_monitor_loop thread and at most one detection thread are running.
C31_OneThreadEach ==
    /\ Cardinality(RunningMonitors) <= 1
    /\ Cardinality(RunningDetectors) <= 1

----------------------------------------------------------------------------
(* /api/toggle_auto_play while the monitor thread runs *)

\* app_state['auto_play_enabled'] = not app_state['auto_play_enabled']
ToggleAutoPlay ==
    /\ app_state' = [app_state EXCEPT !.auto_play_enabled = ~app_state.auto_play_enabled]
    /\ UNCHANGED <<engine_vars, det, camera_vars, cfg, reader, now, observer_vars,
                   call_vars, mon, music_manager, switched, playback>>

NextAuto ==
    \/ NextRetry
    \/ ToggleAutoPlay

\* the monitor thread of a running detection, the toggle served at any moment
SpecAuto == InitRetry /\ [][NextAuto]_vars

\* the monitor threads that have passed the test of auto_play_enabled (line
\* 290) in their current tick and have not reached the sleep
InTick == {m \in Monitors : mon[m].pc \in {"stable", "time", "read", "cooldown",
                                           "gate", "play", "stamp"}}

\* C33 as stated: while auto-play is off no playback switch is invoked and
\* last_mood_change stays as it is.
C33_NoSwitchWhileOff ==
    [][ ~app_state.auto_play_enabled =>
            /\ switched' = switched
            /\ music_manager' = music_manager
            /\ app_state'.last_mood_change = app_state.last_mood_change ]_vars

\* C33: while auto-play is off no monitor thread passes the test at the top
\* of its loop, so a playback switch or a write of last_mood_change is made
\* only by a thread that is finishing the tick it was in when auto-play was
\* toggled off, and by each such thread at most once.
C33_NoTickBeginsWhileOff ==
    [][ ~app_state.auto_play_enabled =>
            /\ InTick' \subseteq InTick
            /\ \A m \in Monitors :
                  Leaves(m, "loop") => mon'[m].pc \in {"sleep", "off"}
            /\ ( \/ switched' # switched
                 \/ music_manager' # music_manager
                 \/ app_state'.last_mood_change # app_state.last_mood_change )
                  => \E m \in InTick : mon'[m] # mon[m] ]_vars

\* auto-play is off and the monitor thread has just gone to sleep at the time
\* of the first tick without a switch, although the stable mood differs from
\* the served one, the confidence passes the gate and the cooldown is over
C33_Witness ==
    /\ ~app_state.auto_play_enabled
    /\ app_state.mood_detection_active
    /\ InTick = {}
    /\ \E m \in Monitors : mon[m].pc = "sleep" /\ mon[m].wake = now + MonitorSleep
    /\ now = UpTime
    /\ switched = <<>>
    /\ get_stable_mood(mood_history, current_mood, emotion_intensity, now,
                       app_state.mood_stability_window) # music_manager.current_mood
    /\ mood_confidence > SwitchGate
    /\ now - app_state.last_mood_change > app_state.mood_change_cooldown

\* auto-play is off and a tick that had passed the test before has invoked
\* play_mood_music
SwitchedWhileOff ==
    /\ ~app_state.auto_play_enabled
    /\ \E m \in Monitors : mon[m].pc = "stamp"

----------------------------------------------------------------------------
(* The player under every request of /api/play_mood and /api/music_control
   and under the end of a track *)

\* random.shuffle(songs): the orders a list can be left in
Shuffles(songs) ==
    {order \in [DOMAIN songs -> {songs[i] : i \in DOMAIN songs}] :
        \A i, j \in DOMAIN songs : order[i] = order[j] => i = j}

\* the mood whose list play_mood_music(mood) assigns to self.playlist, None
\* when it assigns none
loaded_mood(mm, mood) ==
    IF mood = mm.current_mood THEN NoSong
    ELSE IF get_songs_by_mood(mm, mood) # <<>> THEN mood
    ELSE IF mood # "neutral" /\ get_songs_by_mood(mm, "neutral") # <<>> THEN "neutral"
    ELSE NoSong

\* self.playlist is the list object of music_library it was assigned from:
\* the mood that list belongs to
playlist_mood(mm) ==
    CHOOSE m \in Moods : mm.music_library[m] = mm.playlist

\* MusicManager.previous_song
previous_song(mm) ==
    IF mm.playlist = <<>> THEN mm
    ELSE play_current_song(
             [mm EXCEPT !.current_index =
                 IF @ > 0 THEN @ - 1
                 ELSE IF mm.repeat_mode THEN Len(mm.playlist) - 1
                 ELSE 0])

\* MusicManager.toggle_shuffle, random.shuffle leaving the playlist in order
toggle_shuffle(mm, order) ==
    IF ~mm.shuffle_mode /\ mm.playlist # <<>>
    THEN LET current == mm.playlist[mm.current_index + 1]
         IN  [mm EXCEPT !.shuffle_mode = TRUE,
                        !.playlist = order,
                        !.music_library[playlist_mood(mm)] = order,
                        !.current_index =
                            (CHOOSE i \in DOMAIN order : order[i] = current) - 1]
    ELSE [mm EXCEPT !.shuffle_mode = ~mm.shuffle_mode]

\* MusicManager.toggle_repeat
toggle_repeat(mm) == [mm EXCEPT !.repeat_mode = ~mm.repeat_mode]

\* a request served by the player: call keeps the name of the operation
PlayerOp(op, after) ==
    /\ music_manager' = after
    /\ call' = [op |-> op]
    /\ UNCHANGED <<engine_vars, det, camera_vars, cfg, reader, now,
                   observer_vars, ret, app_state, mon, switched, playback>>

\* /api/play_mood: play_mood_music(mood), with random.shuffle(songs) on the
\* list of the library when shuffle_mode is set
PlayMood ==
    \E mood \in SwitchMoods :
        LET loaded == loaded_mood(music_manager, mood)
        IN  IF music_manager.shuffle_mode /\ loaded # NoSong
            THEN \E order \in Shuffles(music_manager.music_library[loaded]) :
                    PlayerOp("play_mood_music",
                             play_mood_music(
                                 [music_manager EXCEPT !.music_library[loaded] = order],
                                 mood))
            ELSE PlayerOp("play_mood_music", play_mood_music(music_manager, mood))

\* /api/music_control, one action per value of 'action'
ControlPause == PlayerOp("pause", pause(music_manager))
ControlResume == PlayerOp("resume", resume(music_manager))
ControlStop == PlayerOp("stop", stop_music(music_manager))
ControlNext == PlayerOp("next_song", next_song(music_manager))
ControlPrevious == PlayerOp("previous_song", previous_song(music_manager))
ControlRepeat == PlayerOp("toggle_repeat", toggle_repeat(music_manager))
ControlShuffle ==
    \E order \in Shuffles(music_manager.playlist) :
        PlayerOp("toggle_shuffle", toggle_shuffle(music_manager, order))

\* the track ends while _monitor_playback watches it: next_song()
TrackEnds ==
    /\ music_manager.is_playing
    /\ ~music_manager.is_paused
    /\ PlayerOp("end_of_track", next_song(music_manager))

NextPlayer ==
    \/ PlayMood
    \/ ControlPause \/ ControlResume \/ ControlStop
    \/ ControlNext \/ ControlPrevious
    \/ ControlRepeat \/ ControlShuffle
    \/ TrackEnds

SpecPlayer == InitSwitch /\ [][NextPlayer]_vars

\* the step is next_song() at the last track of a playlist
NextAtLastTrack ==
    /\ call' \in {[op |-> "next_song"], [op |-> "end_of_track"]}
    /\ music_manager.playlist # <<>>
    /\ music_manager.current_index = Len(music_manager.playlist) - 1

\* C35: after any sequence of play_mood_music, next_song, previous_song,
\* pause, resume, stop, toggle_shuffle, toggle_repeat and ends of tracks,
\* is_paused implies is_playing and current_index is a position of the
\* playlist when there is one; next_song at the last track stops playback
\* when repeat_mode is off and plays the track at index 0 when it is on.
C35_PlayerInvariants ==
    /\ [](music_manager.is_paused => music_manager.is_playing)
    /\ [](music_manager.playlist # <<>> =>
             /\ 0 <= music_manager.current_index
             /\ music_manager.current_index < Len(music_manager.playlist))
    /\ [][ NextAtLastTrack =>
              IF music_manager.repeat_mode
              THEN /\ music_manager'.current_index = 0
                   /\ music_manager'.current_song = music_manager.playlist[1]
                   /\ music_manager'.is_playing
                   /\ ~music_manager'.is_paused
              ELSE /\ ~music_manager'.is_playing
                   /\ ~music_manager'.is_paused
                   /\ music_manager'.current_song = NoSong
                   /\ music_manager'.current_index = music_manager.current_index ]_vars

\* the second of two shuffled happy tracks ended with repeat_mode on, and the
\* first is playing again
C35_Witness ==
    /\ call = [op |-> "end_of_track"]
    /\ music_manager.repeat_mode
    /\ music_manager.shuffle_mode
    /\ music_manager.current_mood = "happy"
    /\ music_manager.playlist = <<"happy_2", "happy_1">>
    /\ music_manager.current_index = 0
    /\ music_manager.current_song = "happy_2"
    /\ music_manager.is_playing

\* the last track ended with repeat_mode off: playback has stopped at the
\* last position
StoppedAtEnd ==
    /\ call = [op |-> "end_of_track"]
    /\ ~music_manager.repeat_mode
    /\ Len(music_manager.playlist) = 2
    /\ music_manager.current_index = 1
    /\ ~music_manager.is_playing

----------------------------------------------------------------------------
(* play_current_song and _monitor_playback: the threads that watch for the
   end of a track *)

\* the _monitor_playback threads that have been started and have not returned
LiveMonitors == {t \in PlaybackThreads : playback.thread[t] # "off"}

\* play_current_song after the fields are set: pygame.mixer.music.play() and
\* monitor_thread.start()
monitor_started(pb) ==
    LET free == CHOOSE t \in PlaybackThreads :
                    /\ pb.thread[t] = "off"
                    /\ \A u \in PlaybackThreads : pb.thread[u] = "off" => t <= u
    IN  [pb EXCEPT !.busy = TRUE, !.thread[free] = "loop"]

\* next_song() reaches play_current_song()
next_song_plays(mm) ==
    /\ mm.playlist # <<>>
    /\ mm.current_index < Len(mm.playlist) - 1 \/ mm.repeat_mode

\* an operation of the music manager: the fields it leaves, whether it went
\* through play_current_song or through stop, and the threads as its caller
\* leaves them; an operation that would start one thread more than are
\* followed is not taken
PlaybackOp(after, plays, stops, threads) ==
    /\ plays => \E t \in PlaybackThreads : playback.thread[t] = "off"
    /\ music_manager' = after
    /\ playback' =
          LET pb == IF plays THEN monitor_started(playback)
                    ELSE IF stops THEN [playback EXCEPT !.busy = FALSE]
                    ELSE playback
          IN  [pb EXCEPT !.thread =
                  [t \in PlaybackThreads |->
                      IF threads[t] # playback.thread[t] THEN threads[t] ELSE @[t]]]
    /\ UNCHANGED <<engine_vars, det, camera_vars, cfg, reader, now,
                   observer_vars, call_vars, app_state, mon, switched>>

\* /api/play_mood
RequestPlayMood ==
    \E mood \in SwitchMoods :
        PlaybackOp(play_mood_music(music_manager, mood),
                   tracks_loaded(music_manager, mood) = 1, FALSE, playback.thread)

\* /api/music_control with 'next', 'previous' and 'stop'
RequestNext ==
    PlaybackOp(next_song(music_manager), next_song_plays(music_manager),
               music_manager.playlist # <<>> /\ ~next_song_plays(music_manager),
               playback.thread)

RequestPrevious ==
    PlaybackOp(previous_song(music_manager), music_manager.playlist # <<>>, FALSE,
               playback.thread)

RequestStop ==
    /\ music_manager.is_playing
    /\ PlaybackOp(stop_music(music_manager), FALSE, TRUE, playback.thread)

\* the mixer reaches the end of the track: get_busy() returns False from now on
TrackFinishes ==
    /\ playback.busy
    /\ playback' = [playback EXCEPT !.busy = FALSE]
    /\ UNCHANGED <<engine_vars, det, camera_vars, cfg, reader, now,
                   observer_vars, call_vars, app_state, mon, music_manager, switched>>

\* a step of a _monitor_playback thread that changes only its position
PlaybackGoes(t, from, to) ==
    /\ playback.thread[t] = from
    /\ playback' = [playback EXCEPT !.thread[t] = to]
    /\ UNCHANGED <<engine_vars, det, camera_vars, cfg, reader, now,
                   observer_vars, call_vars, app_state, mon, music_manager, switched>>

\* while self.is_playing
PlaybackLoop(t) ==
    PlaybackGoes(t, "loop", IF music_manager.is_playing THEN "busy" ELSE "off")

\* if not pygame.mixer.music.get_busy() and not self.is_paused
PlaybackBusy(t) ==
    PlaybackGoes(t, "busy",
                 IF ~playback.busy /\ ~music_manager.is_paused THEN "next" ELSE "sleep")

\* self.next_song(); break
PlaybackNextSong(t) ==
    /\ playback.thread[t] = "next"
    /\ PlaybackOp(next_song(music_manager), next_song_plays(music_manager),
                  music_manager.playlist # <<>> /\ ~next_song_plays(music_manager),
                  [playback.thread EXCEPT ![t] = "off"])

\* time.sleep(1) returns
PlaybackSleep(t) == PlaybackGoes(t, "sleep", "loop")

NextPlayback ==
    \/ RequestPlayMood \/ RequestNext \/ RequestPrevious \/ RequestStop
    \/ TrackFinishes
    \/ \E t \in PlaybackThreads : PlaybackLoop(t)
    \/ \E t \in PlaybackThreads : PlaybackBusy(t)
    \/ \E t \in PlaybackThreads : PlaybackNextSong(t)
    \/ \E t \in PlaybackThreads : PlaybackSleep(t)

SpecPlayback == InitSwitch /\ [][NextPlayback]_vars

\* a thread calls next_song only while the mixer is silent: no other thread
\* has started the next track since this one found the track ended
AdvancesOnlyEndedTrack ==
    [][ \A t \in PlaybackThreads :
           (playback.thread[t] = "next" /\ playback'.thread[t] = "off") =>
               ~playback.busy ]_vars

\* C36: at most one _monitor_playback thread is alive, and a thread calls
\* next_song only for a track that has ended and that no other thread has
\* advanced from, so that the end of a track moves current_index by one.
C36_OneAdvancePerTrackEnd ==
    /\ [](Cardinality(LiveMonitors) <= 1)
    /\ AdvancesOnlyEndedTrack

====
